---- MODULE Spec2Model ----
(***************************************************************************)
(* Model of the three BB-Astro PixInsight utilities (DeepCosmicRay,        *)
(* LACosmic, CosmeticCorrection): the parameter store used by process      *)
(* icons and the job pipeline export -> external tool -> load -> apply ->  *)
(* cleanup.                                                                *)
(*                                                                         *)
(* Real numbers are held as integers counting thousandths (0.1 is 100,     *)
(* 4.765 is 4765).  Texts are TLA+ strings.                                *)
(***************************************************************************)
EXTENDS Integers, Sequences, FiniteSets, TLC

VARIABLES
    call,        \* a single run of a wrapper script or of an image loader
    util,        \* which of the three scripts is running
    settings,    \* the script's global settings object (BBDeepCR / BBLACosmic / data)
    params,      \* the host's Parameters object: persisted form, key -> text
    targetMode,  \* "none" | "global" | "view": Parameters.isGlobalTarget / isViewTarget
    saved,       \* the settings at the moment exportParameters last ran
    pc,          \* position of the script
    paths,       \* which of the job's path variables are non-null
    fs,          \* temp directory: file -> "absent" | "ok" | "bad"
    target,      \* pixel content of the target image: "orig" | "result"
    proc,        \* the ExternalProcess: state, exit code, what the job read of it
    clock,       \* Date.now() and the job's startTime
    host,        \* host-side effects of the job: windows, brackets, message boxes
    job          \* bookkeeping of the job: outcome, cleanup runs, counters

vars == <<call, util, settings, params, targetMode, saved, pc, paths, fs, target,
          proc, clock, host, job>>

-----------------------------------------------------------------------------
(* Number <-> text conversions of the script engine.                       *)

Utils == {"DeepCR", "LACosmic", "CC"}

DigitChars == <<"0", "1", "2", "3", "4", "5", "6", "7", "8", "9">>

DigitChar(d) == DigitChars[d + 1]

IsDigit(ch) == \E d \in 0..9 : DigitChars[d + 1] = ch

DigitVal(ch) == CHOOSE d \in 0..9 : DigitChars[d + 1] = ch

Abs(n) == IF n < 0 THEN 0 - n ELSE n

RECURSIVE NatToString(_)
NatToString(n) ==
    IF n < 10 THEN DigitChar(n)
    ELSE NatToString(n \div 10) \o DigitChar(n % 10)

\* The fractional digits of f thousandths, trailing zeros dropped.
FracToString(f) ==
    IF f = 0 THEN ""
    ELSE IF f % 100 = 0 THEN "." \o DigitChar(f \div 100)
    ELSE IF f % 10 = 0
         THEN "." \o DigitChar(f \div 100) \o DigitChar((f \div 10) % 10)
    ELSE "." \o DigitChar(f \div 100) \o DigitChar((f \div 10) % 10)
             \o DigitChar(f % 10)

\* Number.prototype.toString of x thousandths: shortest decimal text.
NumberToString(x) ==
    (IF x < 0 THEN "-" ELSE "")
        \o NatToString(Abs(x) \div 1000) \o FracToString(Abs(x) % 1000)

BoolToString(b) == IF b THEN "true" ELSE "false"

CharAt(s, i) == SubSeq(s, i, i)

\* Length of the run of digits of s that starts at position i.
RECURSIVE DigitRun(_, _)
DigitRun(s, i) ==
    IF i > Len(s) \/ ~IsDigit(CharAt(s, i)) THEN 0 ELSE 1 + DigitRun(s, i + 1)

\* Value of the digits s[i .. i+n-1] read as a natural number.
RECURSIVE DigitsValue(_, _, _)
DigitsValue(s, i, n) ==
    IF n = 0 THEN 0
    ELSE DigitsValue(s, i, n - 1) * 10 + DigitVal(CharAt(s, i + n - 1))

\* Thousandths denoted by the first three fractional digits s[i .. i+n-1].
FracValue(s, i, n) ==
    (IF n >= 1 THEN DigitVal(CharAt(s, i)) * 100 ELSE 0)
  + (IF n >= 2 THEN DigitVal(CharAt(s, i + 1)) * 10 ELSE 0)
  + (IF n >= 3 THEN DigitVal(CharAt(s, i + 2)) ELSE 0)

\* parseFloat: optional sign, digits, optional fraction; what follows is
\* ignored; NaN when no number starts the text.  The result is a record:
\* isNaN, and the value in thousandths (0 when isNaN).
ParseFloat(s) ==
    LET neg  == Len(s) >= 1 /\ CharAt(s, 1) = "-"
        i0   == IF neg \/ (Len(s) >= 1 /\ CharAt(s, 1) = "+") THEN 2 ELSE 1
        ni   == DigitRun(s, i0)
        dot  == i0 + ni <= Len(s) /\ CharAt(s, i0 + ni) = "."
        nf   == IF dot THEN DigitRun(s, i0 + ni + 1) ELSE 0
        mag  == DigitsValue(s, i0, ni) * 1000 + FracValue(s, i0 + ni + 1, nf)
    IN  IF ni = 0 /\ nf = 0 THEN [isNaN |-> TRUE, value |-> 0]
        ELSE [isNaN |-> FALSE, value |-> IF neg THEN 0 - mag ELSE mag]

\* The text is a whole decimal number and nothing else.
IsNumberText(s) ==
    LET neg == Len(s) >= 1 /\ CharAt(s, 1) = "-"
        i0  == IF neg THEN 2 ELSE 1
        ni  == DigitRun(s, i0)
        dot == i0 + ni <= Len(s) /\ CharAt(s, i0 + ni) = "."
        nf  == IF dot THEN DigitRun(s, i0 + ni + 1) ELSE 0
    IN  /\ ni >= 1
        /\ (IF dot THEN nf >= 1 /\ i0 + ni + nf = Len(s)
                   ELSE i0 + ni - 1 = Len(s))

-----------------------------------------------------------------------------
(* The host's Parameters object.                                           *)

NoParams == [k \in {} |-> ""]

ParametersHas(p, k) == k \in DOMAIN p

\* Parameters.set for a batch of keys: each value is stored as its text.
ParametersSet(p, kv) ==
    [k \in (DOMAIN p) \cup (DOMAIN kv) |-> IF k \in DOMAIN kv THEN kv[k] ELSE p[k]]

getString(p, k) == p[k]

getReal(p, k) == ParseFloat(p[k]).value

\* An integer parameter is held as a plain integer, not as thousandths.
getInteger(p, k) == ParseFloat(p[k]).value \div 1000

IntegerToString(n) == NumberToString(n * 1000)

getBoolean(p, k) == p[k] = "true"

-----------------------------------------------------------------------------
(* Global settings objects and their defaults.                             *)

WrapperDeepCR == "/scripts/run_deepcr.sh"

WrapperLACosmic == "/scripts/run_lacosmic.sh"

TempDir == "/tmp"

BBDeepCR ==
    [model |-> "WFC3-UVIS", threshold |-> 100, inpaint |-> TRUE,
     preset |-> "optimal", saveMask |-> FALSE, replaceActive |-> FALSE,
     wrapperScript |-> WrapperDeepCR, outputDir |-> TempDir]

PRESETS ==
    [optimal      |-> [model |-> "WFC3-UVIS", threshold |-> 100],
     aggressive   |-> [model |-> "WFC3-UVIS", threshold |-> 50],
     conservative |-> [model |-> "WFC3-UVIS", threshold |-> 200],
     acs_default  |-> [model |-> "ACS-WFC",   threshold |-> 500]]

BBLACosmic ==
    [sigclip |-> 1500, objlim |-> 1500, readnoise |-> 9000, gain |-> 1000,
     niter |-> 6, cleantype |-> "meanmask",
     sigfrac |-> 300, sepmed |-> TRUE, fsmode |-> "median",
     psfmodel |-> "gauss", psffwhm |-> 2500, psfsize |-> 7,
     psfbeta |-> 4765, satlevel |-> 65535,
     saveMask |-> FALSE, replaceActive |-> FALSE,
     wrapperScript |-> WrapperLACosmic, outputDir |-> TempDir]

CosmeticCorrectionData ==
    [targetView |-> "activeView", processIconId |-> "", useProcessIcon |-> FALSE,
     useAutoDetect |-> TRUE, hotSigma |-> 1800, coldSigma |-> 1400,
     amount |-> 1000, cfa |-> FALSE]

Defaults(u) ==
    CASE u = "DeepCR"   -> BBDeepCR
      [] u = "LACosmic" -> BBLACosmic
      [] u = "CC"       -> CosmeticCorrectionData

-----------------------------------------------------------------------------
(* exportParameters / importParameters of the three scripts.               *)

\* exportParameters that forgets to store the preset.
exportParameters_DeepCR_NoPreset(s, p) ==
    ParametersSet(p,
        [model         |-> s.model,
         threshold     |-> NumberToString(s.threshold),
         saveMask      |-> BoolToString(s.saveMask),
         replaceActive |-> BoolToString(s.replaceActive)])

exportParameters_DeepCR(s, p) ==
    ParametersSet(p,
        [model         |-> s.model,
         threshold     |-> NumberToString(s.threshold),
         preset        |-> s.preset,
         saveMask      |-> BoolToString(s.saveMask),
         replaceActive |-> BoolToString(s.replaceActive)])

\* importParameters whose replaceActive line tests the saveMask key.
importParameters_DeepCR_WrongKey(s, p) ==
    [s EXCEPT
     !.model = IF ParametersHas(p, "model") THEN getString(p, "model") ELSE @,
     !.threshold = IF ParametersHas(p, "threshold") THEN getReal(p, "threshold") ELSE @,
     !.preset = IF ParametersHas(p, "preset") THEN getString(p, "preset") ELSE @,
     !.saveMask = IF ParametersHas(p, "saveMask") THEN getBoolean(p, "saveMask") ELSE @,
     !.replaceActive =
         IF ParametersHas(p, "saveMask") THEN getBoolean(p, "saveMask") ELSE @]

importParameters_DeepCR(s, p) ==
    [s EXCEPT
     !.model = IF ParametersHas(p, "model") THEN getString(p, "model") ELSE @,
     !.threshold = IF ParametersHas(p, "threshold") THEN getReal(p, "threshold") ELSE @,
     !.preset = IF ParametersHas(p, "preset") THEN getString(p, "preset") ELSE @,
     !.saveMask = IF ParametersHas(p, "saveMask") THEN getBoolean(p, "saveMask") ELSE @,
     !.replaceActive =
         IF ParametersHas(p, "replaceActive") THEN getBoolean(p, "replaceActive") ELSE @]

exportParameters_LACosmic(s, p) ==
    ParametersSet(p,
        [sigclip       |-> NumberToString(s.sigclip),
         objlim        |-> NumberToString(s.objlim),
         readnoise     |-> NumberToString(s.readnoise),
         gain          |-> NumberToString(s.gain),
         niter         |-> IntegerToString(s.niter),
         cleantype     |-> s.cleantype,
         saveMask      |-> BoolToString(s.saveMask),
         replaceActive |-> BoolToString(s.replaceActive)])

importParameters_LACosmic(s, p) ==
    [s EXCEPT
     !.sigclip = IF ParametersHas(p, "sigclip") THEN getReal(p, "sigclip") ELSE @,
     !.objlim = IF ParametersHas(p, "objlim") THEN getReal(p, "objlim") ELSE @,
     !.readnoise = IF ParametersHas(p, "readnoise") THEN getReal(p, "readnoise") ELSE @,
     !.gain = IF ParametersHas(p, "gain") THEN getReal(p, "gain") ELSE @,
     !.niter = IF ParametersHas(p, "niter") THEN getInteger(p, "niter") ELSE @,
     !.cleantype = IF ParametersHas(p, "cleantype") THEN getString(p, "cleantype") ELSE @,
     !.saveMask = IF ParametersHas(p, "saveMask") THEN getBoolean(p, "saveMask") ELSE @,
     !.replaceActive =
         IF ParametersHas(p, "replaceActive") THEN getBoolean(p, "replaceActive") ELSE @]

exportParameters_CC(s, p) ==
    ParametersSet(p,
        [useProcessIcon |-> BoolToString(s.useProcessIcon),
         processIconId  |-> s.processIconId,
         useAutoDetect  |-> BoolToString(s.useAutoDetect),
         hotSigma       |-> NumberToString(s.hotSigma),
         coldSigma      |-> NumberToString(s.coldSigma),
         amount         |-> NumberToString(s.amount),
         cfa            |-> BoolToString(s.cfa)])

importParameters_CC(s, p) ==
    [s EXCEPT
     !.useProcessIcon =
         IF ParametersHas(p, "useProcessIcon") THEN getBoolean(p, "useProcessIcon") ELSE @,
     !.processIconId =
         IF ParametersHas(p, "processIconId") THEN getString(p, "processIconId") ELSE @,
     !.useAutoDetect =
         IF ParametersHas(p, "useAutoDetect") THEN getBoolean(p, "useAutoDetect") ELSE @,
     !.hotSigma = IF ParametersHas(p, "hotSigma") THEN getReal(p, "hotSigma") ELSE @,
     !.coldSigma = IF ParametersHas(p, "coldSigma") THEN getReal(p, "coldSigma") ELSE @,
     !.amount = IF ParametersHas(p, "amount") THEN getReal(p, "amount") ELSE @,
     !.cfa = IF ParametersHas(p, "cfa") THEN getBoolean(p, "cfa") ELSE @]

exportParameters(u, s, p) ==
    CASE u = "DeepCR"   -> exportParameters_DeepCR(s, p)
      [] u = "LACosmic" -> exportParameters_LACosmic(s, p)
      [] u = "CC"       -> exportParameters_CC(s, p)

importParameters(u, s, p) ==
    CASE u = "DeepCR"   -> importParameters_DeepCR(s, p)
      [] u = "LACosmic" -> importParameters_LACosmic(s, p)
      [] u = "CC"       -> importParameters_CC(s, p)

\* The keys each script persists.
PersistedKeys(u) ==
    CASE u = "DeepCR"   -> {"model", "threshold", "preset", "saveMask", "replaceActive"}
      [] u = "LACosmic" -> {"sigclip", "objlim", "readnoise", "gain", "niter",
                            "cleantype", "saveMask", "replaceActive"}
      [] u = "CC"       -> {"useProcessIcon", "processIconId", "useAutoDetect",
                            "hotSigma", "coldSigma", "amount", "cfa"}

-----------------------------------------------------------------------------
(* State of a script that has not started a job.                           *)

Files == {"input", "output", "mask"}

NoPaths == [f \in Files |-> FALSE]

EmptyTemp == [f \in Files |-> "absent"]

\* state: "none" | "running" | "exited" | "killed"; hangs: this invocation of
\* the tool never terminates by itself; codeRead: the job read process.exitCode;
\* cmd: the command line it was launched with; maskFlag: --save-mask was on it;
\* stdout, stderr: what the process has written to its two streams.
NoProcess ==
    [state |-> "none", exitCode |-> 0, hangs |-> FALSE, codeRead |-> FALSE,
     cmd |-> "", maskFlag |-> FALSE, wrapper |-> "none", stdout |-> "", stderr |-> ""]

\* bracket: the target view is between beginProcess and endProcess;
\* dialog: the outcome message box on screen; invalid: the edit fields whose
\* validationState flag is false; edits: text edits made in the dialog;
\* thresholdText, presetItem, modelItem: what the DeepCR dialog's threshold
\* field and its two combo boxes show; other: pixel content of an image
\* window that is not the target; console: process output written to the
\* console.
\* No image: the value of an image variable before anything was decoded, and
\* of a window's geometry while the window does not exist.
NoImage ==
    [width |-> 0, height |-> 0, numberOfChannels |-> 0, bitsPerSample |-> 0,
     isReal |-> FALSE, isColor |-> FALSE]

NoHost ==
    [bracket |-> FALSE, resultWindow |-> FALSE, maskWindow |-> FALSE,
     tempWindow |-> FALSE, dialog |-> "none", parameterDialog |-> FALSE,
     invalid |-> {}, edits |-> 0, refused |-> FALSE, resultGeometry |-> NoImage,
     thresholdText |-> "", presetItem |-> 0, modelItem |-> 0,
     other |-> "orig", console |-> ""]

\* looked: "no" | "found" | "missing", the File.exists test of the primary
\* output; loads: decode attempts; attempted: files File.remove was called on;
\* window: the window the job took as `window`, "target" or "other";
\* ccOutput: the file the CosmeticCorrection instance was set up to write.
NoJob ==
    [outcome |-> "none", jobs |-> 0, cleanups |-> 0, exports |-> 0, spawns |-> 0,
     looked |-> "no", loads |-> 0, attempted |-> {}, warnings |-> 0,
     escaped |-> FALSE, image |-> NoImage, window |-> "none", ccOutput |-> ""]

\* No wrapper or loader run is being examined.
NoCall == [fn |-> "none"]

pipeVars == <<paths, fs, target, proc, clock, host, job>>

PipelineIdle ==
    /\ paths = NoPaths
    /\ fs = EmptyTemp
    /\ target = "orig"
    /\ proc = NoProcess
    /\ clock = [now |-> 0, startTime |-> 0]
    /\ host = NoHost
    /\ job = NoJob

-----------------------------------------------------------------------------
(* Parameter store: settings are saved to a process icon with the          *)
(* new-instance button and read back when the script is launched from the  *)
(* icon.                                                                   *)

MaxImports == 2

MaxIconEdits == 1

ThresholdSamples == {0 - 500, 0, 5, 50, 100, 125, 1000, 12340}

SettingsSamples(u) ==
    CASE u = "DeepCR" ->
           { [BBDeepCR EXCEPT !.model = m, !.threshold = t, !.preset = pr,
                              !.saveMask = sm, !.replaceActive = ra] :
               m \in {"WFC3-UVIS", "ACS-WFC"}, t \in ThresholdSamples,
               pr \in {"optimal", "acs_default", "custom"},
               sm \in BOOLEAN, ra \in BOOLEAN }
      [] u = "LACosmic" ->
           { [BBLACosmic EXCEPT !.sigclip = sc, !.objlim = ol, !.readnoise = rn,
                                !.gain = g, !.niter = n, !.cleantype = ct,
                                !.saveMask = sm, !.replaceActive = ra] :
               sc \in {100, 1500, 10000}, ol \in {1500, 2250}, rn \in {9000, 3125},
               g \in {1000, 450}, n \in {1, 6, 10},
               ct \in {"meanmask", "medmask"}, sm \in BOOLEAN, ra \in BOOLEAN }
      [] u = "CC" ->
           { [CosmeticCorrectionData EXCEPT
                  !.useProcessIcon = ui, !.processIconId = id, !.useAutoDetect = ad,
                  !.hotSigma = hs, !.coldSigma = cs, !.amount = am, !.cfa = cf] :
               ui \in BOOLEAN, id \in {"", "CC_Icon_01", "true"}, ad \in BOOLEAN,
               hs \in {100, 1800, 10000}, cs \in {1400, 2750},
               am \in {0, 500, 1000}, cf \in BOOLEAN }

\* A key that no version of the scripts reads.
UnknownKey == "futureOption"

Restrict(p, keys) == [k \in (DOMAIN p) \cap keys |-> p[k]]

\* What a user (or another version of the script) can do to the parameter
\* table of an icon: drop a key, or add a key the script does not know.
EditedForms(u, p) ==
    LET dropped == { Restrict(p, (DOMAIN p) \ {k}) : k \in DOMAIN p }
    IN  dropped \cup { ParametersSet(q, [futureOption |-> "1"]) : q \in dropped \cup {p} }

ParamInit ==
    /\ call = NoCall
    /\ util \in Utils
    /\ settings \in SettingsSamples(util)
    /\ params = NoParams
    /\ targetMode = "none"
    /\ saved = [exported |-> FALSE, edits |-> 0, imports |-> 0,
                 prior |-> settings, at |-> settings]
    /\ pc = "edit"
    /\ PipelineIdle

\* newInstanceButton.onMousePress: exportParameters(), then the icon is made.
newInstanceButton_onMousePress ==
    /\ pc = "edit"
    /\ params' = exportParameters(util, settings, params)
    /\ saved' = [saved EXCEPT !.exported = TRUE, !.at = settings]
    /\ pc' = "icon"
    /\ UNCHANGED <<call, util, settings, targetMode>>
    /\ UNCHANGED pipeVars

\* The icon's parameter table is edited before it is used.
EditIcon ==
    /\ pc = "icon"
    /\ saved.edits < MaxIconEdits
    /\ params' \in EditedForms(util, params)
    /\ saved' = [saved EXCEPT !.edits = @ + 1]
    /\ UNCHANGED <<call, util, settings, targetMode, pc>>
    /\ UNCHANGED pipeVars

\* The script is started from the icon: its globals are built afresh.
LaunchFromIcon ==
    /\ pc = "icon"
    /\ settings' = Defaults(util)
    /\ targetMode' \in {"global", "view"}
    /\ pc' = "main"
    /\ UNCHANGED <<call, util, params, saved>>
    /\ UNCHANGED pipeVars

\* importParameters() on the launched script (a second call models importing
\* the same form again).
ImportStep ==
    /\ pc \in {"main", "imported"}
    /\ saved.imports < MaxImports
    /\ settings' = importParameters(util, settings, params)
    /\ saved' = [saved EXCEPT !.imports = @ + 1, !.prior = settings]
    /\ pc' = "imported"
    /\ UNCHANGED <<call, util, params, targetMode>>
    /\ UNCHANGED pipeVars

ParamNext ==
    \/ newInstanceButton_onMousePress
    \/ EditIcon
    \/ LaunchFromIcon
    \/ ImportStep

ParamSpec == ParamInit /\ [][ParamNext]_vars

\* C9: round trip of parameters.  When a script is launched from an icon that
\* was saved with the new-instance button and not edited since, then after
\* importParameters every persisted key of the settings has the value it had
\* when the icon was saved.
RoundTripOfParameters ==
    (pc = "imported" /\ saved.exported /\ saved.edits = 0)
        => \A k \in PersistedKeys(util) : settings[k] = saved.at[k]

\* Witness for C9: an icon saved from non-default settings has been imported.
RoundTripWitness ==
    /\ pc = "imported"
    /\ saved.exported /\ saved.edits = 0
    /\ \E k \in PersistedKeys(util) : saved.at[k] # Defaults(util)[k]

\* C10: importParameters overwrites the recognised keys present in the form
\* and nothing else: every other field keeps the value it had before the
\* import, the result is what importing the form without its unknown keys
\* gives, and importing the same form again changes nothing.
ImportOverwritesOnlyPresentKeys ==
    pc = "imported" =>
        LET present == PersistedKeys(util) \cap DOMAIN params
        IN  /\ \A f \in DOMAIN settings :
                   f \notin present => settings[f] = saved.prior[f]
            /\ settings = importParameters(util, saved.prior,
                                           Restrict(params, PersistedKeys(util)))
            /\ saved.imports >= 2 => settings = saved.prior

\* Witness for C10: a form with an unknown key and a recognised key missing
\* has been imported twice over settings the form really changes.
ImportWitness ==
    /\ pc = "imported"
    /\ saved.imports = 2
    /\ UnknownKey \in DOMAIN params
    /\ \E k \in PersistedKeys(util) : k \notin DOMAIN params
    /\ settings # Defaults(util)

-----------------------------------------------------------------------------
(* The scripts' entry points and parameter dialogs.                        *)

MaxEdits == 1

\* Settings a process icon may have been saved from (or edited to): the
\* defaults with both options off or both on and one numeric value that may
\* lie outside the range the dialog accepts.
IconSettings(u) ==
    CASE u = "DeepCR" ->
           { [BBDeepCR EXCEPT !.threshold = t, !.saveMask = on, !.replaceActive = on] :
               t \in {100, 5000}, on \in BOOLEAN }
      [] u = "LACosmic" ->
           { [BBLACosmic EXCEPT !.sigclip = sc, !.saveMask = on, !.replaceActive = on] :
               sc \in {1500, 50}, on \in BOOLEAN }
      [] u = "CC" ->
           { [CosmeticCorrectionData EXCEPT !.hotSigma = hs] : hs \in {1800, 20000} }

IconForms(u) == { exportParameters(u, s, NoParams) : s \in IconSettings(u) }

Init ==
    /\ call = NoCall
    /\ util \in Utils
    /\ targetMode \in {"none", "global", "view"}
    /\ params \in (IF targetMode = "none" THEN {NoParams} ELSE IconForms(util))
    /\ settings = Defaults(util)
    /\ saved = [exported |-> FALSE, edits |-> 0, imports |-> 0,
                prior |-> settings, at |-> settings]
    /\ pc = "main"
    /\ PipelineIdle

\* new BBDeepCRDialog(): validationState.threshold = true, both combo boxes
\* on their first item, the threshold field showing the stored threshold.
BBDeepCRDialog(s, h) ==
    [h EXCEPT !.parameterDialog = TRUE, !.invalid = {},
              !.thresholdText = NumberToString(s.threshold),
              !.presetItem = 0, !.modelItem = 0]

\* main() of BB_DeepCosmicRay.js and of BB-Astro_LAcosmic.js: import when
\* launched from an icon; on a view target run the job at once; otherwise
\* show the dialog, or give up when there is no active window.
main_DeepCR ==
    /\ pc = "main"
    /\ util = "DeepCR"
    /\ settings' = IF targetMode \in {"global", "view"}
                   THEN importParameters_DeepCR(settings, params) ELSE settings
    /\ \E activeWindow \in BOOLEAN :
          IF targetMode = "view" THEN pc' = "job" /\ host' = host
          ELSE IF ~activeWindow THEN pc' = "exit" /\ host' = host
          ELSE pc' = "dialog" /\ host' = BBDeepCRDialog(settings', host)
    /\ UNCHANGED <<call, util, params, targetMode, saved, paths, fs, target, proc, clock, job>>

main_LACosmic ==
    /\ pc = "main"
    /\ util = "LACosmic"
    /\ settings' = IF targetMode \in {"global", "view"}
                   THEN importParameters_LACosmic(settings, params) ELSE settings
    /\ \E activeWindow \in BOOLEAN :
          IF targetMode = "view" THEN pc' = "job" /\ host' = host
          ELSE IF ~activeWindow THEN pc' = "exit" /\ host' = host
          ELSE pc' = "dialog" /\ host' = [host EXCEPT !.parameterDialog = TRUE]
    /\ UNCHANGED <<call, util, params, targetMode, saved, paths, fs, target, proc, clock, job>>

\* main() of BB_CosmeticCorrection.js: always imports, always shows the dialog.
main_CC ==
    /\ pc = "main"
    /\ util = "CC"
    /\ settings' = importParameters_CC(settings, params)
    /\ \E activeWindow \in BOOLEAN :
          IF ~activeWindow THEN pc' = "exit" /\ host' = host
          ELSE pc' = "dialog" /\ host' = [host EXCEPT !.parameterDialog = TRUE]
    /\ UNCHANGED <<call, util, params, targetMode, saved, paths, fs, target, proc, clock, job>>

\* saveMaskCheck.onCheck / replaceActiveCheck.onCheck (DeepCR and LACosmic).
saveMaskCheck_onCheck ==
    /\ pc = "dialog"
    /\ util \in {"DeepCR", "LACosmic"}
    /\ \E checked \in BOOLEAN :
          /\ checked # settings.saveMask
          /\ settings' = [settings EXCEPT !.saveMask = checked]
    /\ UNCHANGED <<call, util, params, targetMode, saved, pc>>
    /\ UNCHANGED pipeVars

replaceActiveCheck_onCheck ==
    /\ pc = "dialog"
    /\ util \in {"DeepCR", "LACosmic"}
    /\ \E checked \in BOOLEAN :
          /\ checked # settings.replaceActive
          /\ settings' = [settings EXCEPT !.replaceActive = checked]
    /\ UNCHANGED <<call, util, params, targetMode, saved, pc>>
    /\ UNCHANGED pipeVars

\* Texts typed into a numeric edit field.
EditTexts == {"0.25", "0.005", "200", "0", "abc"}

\* The test of thresholdEdit.onTextUpdated that rejects the typed value.
ThresholdRejected(v) == v.isNaN \/ v.value <= 0 \/ v.value > 1000

\* The body of thresholdEdit.onTextUpdated(text), run on settings s and
\* dialog h: the new settings and dialog.
thresholdEdit_handler(text, s, h) ==
    LET value == ParseFloat(text)
    IN  IF ThresholdRejected(value)
        THEN [settings |-> s,
              host |-> [h EXCEPT !.invalid = @ \cup {"threshold"}]]
        ELSE [settings |-> [s EXCEPT !.threshold = value.value, !.preset = "custom"],
              host |-> [h EXCEPT !.invalid = @ \ {"threshold"}, !.presetItem = 4]]

\* The user types into the threshold field of the DeepCR dialog:
\* thresholdEdit.onTextUpdated runs on the text now shown.
thresholdEdit_onTextUpdated ==
    /\ pc = "dialog"
    /\ util = "DeepCR"
    /\ host.edits < MaxEdits
    /\ \E text \in EditTexts :
          LET r == thresholdEdit_handler(text, settings,
                       [host EXCEPT !.thresholdText = text, !.edits = @ + 1])
          IN  /\ host' = r.host
              /\ settings' = r.settings
    /\ UNCHANGED <<call, util, params, targetMode, saved, pc, paths, fs, target, proc,
                   clock, job>>

\* presetNames of presetCombo.onItemSelected, by combo index 0..4.
presetNames == <<"optimal", "aggressive", "conservative", "acs_default", "custom">>

\* presetCombo.onItemSelected(index): store the preset; unless it is
\* "custom", copy its model and threshold into the settings and show them.
\* Setting thresholdEdit.text from the script may or may not raise
\* onTextUpdated, depending on the host (`raises`); if it does, the handler
\* runs inside the assignment, before the model combo box is set.
presetCombo_onItemSelected(index) ==
    /\ pc = "dialog"
    /\ util = "DeepCR"
    /\ \E raises \in BOOLEAN :
          LET name == presetNames[index + 1]
              s1   == [settings EXCEPT !.preset = name]
              h1   == [host EXCEPT !.presetItem = index]
          IN  IF name # "custom"
              THEN LET s2 == [s1 EXCEPT !.model = PRESETS[name].model,
                                        !.threshold = PRESETS[name].threshold]
                       h2 == [h1 EXCEPT !.thresholdText = NumberToString(s2.threshold)]
                       r  == IF raises
                             THEN thresholdEdit_handler(h2.thresholdText, s2, h2)
                             ELSE [settings |-> s2, host |-> h2]
                   IN  /\ settings' = r.settings
                       /\ host' = [r.host EXCEPT
                                      !.modelItem = IF r.settings.model = "WFC3-UVIS"
                                                    THEN 0 ELSE 1]
              ELSE /\ ~raises
                   /\ settings' = s1
                   /\ host' = h1
    /\ UNCHANGED <<call, util, params, targetMode, saved, pc, paths, fs, target, proc,
                   clock, job>>

\* modelCombo.onItemSelected that leaves the stored preset alone.
modelCombo_onItemSelected_KeepsPreset ==
    /\ pc = "dialog"
    /\ util = "DeepCR"
    /\ \E index \in 0..1 :
          /\ settings' = [settings EXCEPT
                             !.model = IF index = 0 THEN "WFC3-UVIS" ELSE "ACS-WFC"]
          /\ host' = [host EXCEPT !.modelItem = index]
    /\ UNCHANGED <<call, util, params, targetMode, saved, pc, paths, fs, target, proc,
                   clock, job>>

\* modelCombo.onItemSelected(index): store the model, switch to "custom".
modelCombo_onItemSelected ==
    /\ pc = "dialog"
    /\ util = "DeepCR"
    /\ \E index \in 0..1 :
          /\ settings' = [settings EXCEPT
                             !.model = IF index = 0 THEN "WFC3-UVIS" ELSE "ACS-WFC",
                             !.preset = "custom"]
          /\ host' = [host EXCEPT !.modelItem = index, !.presetItem = 4]
    /\ UNCHANGED <<call, util, params, targetMode, saved, pc, paths, fs, target, proc,
                   clock, job>>

\* The accepted range of each edit field of the LACosmic dialog.
LACosmicRange ==
    [sigclip   |-> [lo |-> 100, hi |-> 10000],
     objlim    |-> [lo |-> 100, hi |-> 10000],
     readnoise |-> [lo |-> 100, hi |-> 100000],
     gain      |-> [lo |-> 100, hi |-> 10000]]

\* sigclipEdit / objlimEdit / readnoiseEdit / gainEdit .onTextUpdated.
lacosmicEdit_onTextUpdated ==
    /\ pc = "dialog"
    /\ util = "LACosmic"
    /\ host.edits < MaxEdits
    /\ \E field \in DOMAIN LACosmicRange, text \in EditTexts :
          LET val == ParseFloat(text)
              r   == LACosmicRange[field]
          IN  IF val.isNaN \/ val.value < r.lo \/ val.value > r.hi
              THEN /\ host' = [host EXCEPT !.invalid = @ \cup {field}, !.edits = @ + 1]
                   /\ settings' = settings
              ELSE /\ host' = [host EXCEPT !.invalid = @ \ {field}, !.edits = @ + 1]
                   /\ settings' = [settings EXCEPT ![field] = val.value]
    /\ UNCHANGED <<call, util, params, targetMode, saved, pc, paths, fs, target, proc,
                   clock, job>>

\* niterSpin.onValueUpdated: the spin box only yields 1..10.
niterSpin_onValueUpdated ==
    /\ pc = "dialog"
    /\ util = "LACosmic"
    /\ host.edits < MaxEdits
    /\ \E value \in {1, 10} :
          settings' = [settings EXCEPT !.niter = value]
    /\ host' = [host EXCEPT !.edits = @ + 1]
    /\ UNCHANGED <<call, util, params, targetMode, saved, pc, paths, fs, target, proc,
                   clock, job>>

\* executeButton.onClick without the call of self.ok().
executeButton_onClick_StaysOpen ==
    /\ pc = "dialog"
    /\ util = "DeepCR"
    /\ IF "threshold" \in host.invalid
       THEN pc' = pc /\ host' = [host EXCEPT !.refused = TRUE]
       ELSE pc' = "job" /\ host' = host
    /\ UNCHANGED <<call, util, settings, params, targetMode, saved, paths, fs, target,
                   proc, clock, job>>

\* executeButton.onClick (DeepCR) and cleanButton.onClick (LACosmic): refuse
\* with a warning while a field is flagged invalid, else close the dialog
\* and run the job.
executeButton_onClick ==
    /\ pc = "dialog"
    /\ util = "DeepCR"
    /\ IF "threshold" \in host.invalid
       THEN pc' = pc /\ host' = [host EXCEPT !.refused = TRUE]
       ELSE pc' = "job" /\ host' = [host EXCEPT !.parameterDialog = FALSE]
    /\ UNCHANGED <<call, util, settings, params, targetMode, saved, paths, fs, target,
                   proc, clock, job>>

cleanButton_onClick ==
    /\ pc = "dialog"
    /\ util = "LACosmic"
    /\ IF host.invalid \cap {"sigclip", "objlim", "readnoise", "gain"} # {}
       THEN pc' = pc /\ host' = [host EXCEPT !.refused = TRUE]
       ELSE pc' = "job" /\ host' = [host EXCEPT !.parameterDialog = FALSE]
    /\ UNCHANGED <<call, util, settings, params, targetMode, saved, paths, fs, target,
                   proc, clock, job>>

\* ok_Button.onClick of the CosmeticCorrection dialog: with "Use Process
\* Icon" the icon must be named, exist and be a CosmeticCorrection instance;
\* then dialog.ok() and main() calls applyCosmeticCorrection().
ok_Button_onClick ==
    /\ pc = "dialog"
    /\ util = "CC"
    /\ \E iconUsable \in BOOLEAN :
          IF settings.useProcessIcon /\ (settings.processIconId = "" \/ ~iconUsable)
          THEN pc' = pc /\ host' = [host EXCEPT !.refused = TRUE]
          ELSE pc' = "job" /\ host' = [host EXCEPT !.parameterDialog = FALSE]
    /\ UNCHANGED <<call, util, settings, params, targetMode, saved, paths, fs, target,
                   proc, clock, job>>

\* useIcon_CheckBox.onCheck and processIcon_Edit.onTextUpdated (CC dialog).
useIcon_CheckBox_onCheck ==
    /\ pc = "dialog"
    /\ util = "CC"
    /\ \E checked \in BOOLEAN :
          /\ checked # settings.useProcessIcon
          /\ settings' = [settings EXCEPT !.useProcessIcon = checked]
    /\ UNCHANGED <<call, util, params, targetMode, saved, pc>>
    /\ UNCHANGED pipeVars

processIcon_Edit_onTextUpdated ==
    /\ pc = "dialog"
    /\ util = "CC"
    /\ host.edits < MaxEdits
    /\ \E value \in {"", "CC_Icon_01"} :
          settings' = [settings EXCEPT !.processIconId = value]
    /\ host' = [host EXCEPT !.edits = @ + 1]
    /\ UNCHANGED <<call, util, params, targetMode, saved, pc, paths, fs, target, proc,
                   clock, job>>

\* cancelButton / closeButton / cancel_Button .onClick.
cancelButton_onClick ==
    /\ pc = "dialog"
    /\ pc' = "exit"
    /\ host' = [host EXCEPT !.parameterDialog = FALSE]
    /\ UNCHANGED <<call, util, settings, params, targetMode, saved, paths, fs, target,
                   proc, clock, job>>

-----------------------------------------------------------------------------
(* The job: export, external tool, load, apply, cleanup.                   *)

TIMEOUT_MS == 600000

PollMs == 100

\* Time one processEvents() call may take (samples).
EventMs == {599900, 599901}

ExitCodes == {0, 255}

\* Values of Date.now() (small numbers stand for millisecond timestamps) and
\* of the random part: two Math.random() draws in base 36, concatenated.
Timestamps == {1700, 1701}

RandomParts == {"k3x9q7w2mzp4", "0a1b2c", ""}

\* generateSecureTempFilename() of DeepCR and of LACosmic, for the values
\* Date.now() and the random part took: prefix, time, "_", random part,
\* extension.
generateSecureTempFilename(u, now, random) ==
    TempDir \o (IF u = "DeepCR" THEN "/bbdcr_" ELSE "/bblac_")
            \o IntegerToString(now) \o "_" \o random
            \o (IF u = "DeepCR" THEN ".xisf" ELSE ".fits")

\* applyCosmeticCorrection: tempInputFile and tempOutputFile.
tempInputFile(timestamp) ==
    TempDir \o "/bb_cc_input_" \o IntegerToString(timestamp) \o ".xisf"

tempOutputFile(timestamp) ==
    TempDir \o "/bb_cc_input_" \o IntegerToString(timestamp) \o "_cc.xisf"

RECURSIVE Join(_, _)
Join(seq, sep) ==
    IF Len(seq) = 0 THEN ""
    ELSE IF Len(seq) = 1 THEN seq[1]
    ELSE seq[1] \o sep \o Join(Tail(seq), sep)

Range(seq) == { seq[i] : i \in 1..Len(seq) }

buildCommandArray_DeepCR(s, inputPath) ==
    <<"/bin/bash", s.wrapperScript, inputPath, s.outputDir,
      NumberToString(s.threshold)>>
    \o (IF s.preset # "" /\ s.preset # "custom" THEN <<"--preset", s.preset>> ELSE <<>>)
    \o (IF s.saveMask THEN <<"--save-mask">> ELSE <<>>)
    \o <<"--format", "XISF">>

buildCommandArray_LACosmic(s, inputPath) ==
    <<"/bin/bash", s.wrapperScript, inputPath,
      "--outdir", s.outputDir,
      "--suffix", "_crr",
      "--sigclip", NumberToString(s.sigclip),
      "--sigfrac", NumberToString(s.sigfrac),
      "--objlim", NumberToString(s.objlim),
      "--gain", NumberToString(s.gain),
      "--readnoise", NumberToString(s.readnoise),
      "--satlevel", IntegerToString(s.satlevel),
      "--niter", IntegerToString(s.niter),
      "--cleantype", s.cleantype,
      "--sepmed", IF s.sepmed THEN "True" ELSE "False",
      "--fsmode", s.fsmode,
      "--psfmodel", s.psfmodel,
      "--psffwhm", NumberToString(s.psffwhm),
      "--psfsize", IntegerToString(s.psfsize),
      "--psfbeta", NumberToString(s.psfbeta)>>
    \o (IF s.saveMask THEN <<"--save-mask">> ELSE <<>>)
    \o <<"--verbose">>

\* throw inside the try block: the job is failed with this kind and control
\* goes to the catch block.
Failed(kind) == [job EXCEPT !.outcome = kind]

\* The elapsed-time test of the supervision loop.
TimedOut_Late(elapsed) == elapsed > 2 * TIMEOUT_MS

TimedOut(elapsed) == elapsed > TIMEOUT_MS

\* The exit-code test after the loop.
ExitCodeFails_Negative(code) == code < 0

ExitCodeFails(code) == code # 0

\* File.remove on each path of `order` that is non-null and exists.  `stuck`
\* are the files whose removal throws.  With `stop` the first throw ends the
\* sequence (no try around the single removal).  Result: the files left, the
\* files File.remove was called on, and whether a removal threw.
RECURSIVE RemoveFiles(_, _, _, _, _)
RemoveFiles(order, held, f, stuck, stop) ==
    IF Len(order) = 0 THEN [fs |-> f, attempted |-> {}, threw |-> FALSE]
    ELSE LET x == Head(order)
         IN  IF held[x] /\ f[x] # "absent"
             THEN IF x \in stuck
                  THEN IF stop
                       THEN [fs |-> f, attempted |-> {x}, threw |-> TRUE]
                       ELSE LET r == RemoveFiles(Tail(order), held, f, stuck, stop)
                            IN  [r EXCEPT !.attempted = @ \cup {x}, !.threw = TRUE]
                  ELSE LET r == RemoveFiles(Tail(order), held,
                                            [f EXCEPT ![x] = "absent"], stuck, stop)
                       IN  [r EXCEPT !.attempted = @ \cup {x}]
             ELSE RemoveFiles(Tail(order), held, f, stuck, stop)

\* How many removals may fail in one cleanup.
MaxStuck == 1

\* The sets of files whose removal may fail: files on disk, at most MaxStuck.
StuckChoices ==
    { S \in SUBSET { f \in Files : fs[f] # "absent" } : Cardinality(S) <= MaxStuck }

-----------------------------------------------------------------------------
(* executeDeepCR and executeCosmicRayRemoval.                               *)

\* ImageWindow.activeWindow when a job starts: no window, the window of the
\* image the script was invoked for, or another window.  From the dialog the
\* script is invoked for the active window; a saved instance applied to a
\* view names its target itself, whichever window is active.
ActiveWindows(mode) == IF mode = "view" THEN {"none", "target", "other"} ELSE {"none", "target"}

\* Lines "Validate paths" and "Get active window".
Job_validate(u) ==
    /\ pc = "job"
    /\ util = u
    /\ \E wrapperExists \in BOOLEAN, activeWindow \in ActiveWindows(targetMode) :
          IF ~wrapperExists THEN pc' = "catch" /\ job' = [Failed("LaunchError") EXCEPT !.jobs = @ + 1]
          ELSE IF activeWindow = "none"
          THEN pc' = "catch" /\ job' = [Failed("NoWindow") EXCEPT !.jobs = @ + 1]
          ELSE pc' = "export" /\ job' = [job EXCEPT !.jobs = @ + 1, !.window = activeWindow]
    /\ UNCHANGED <<call, util, settings, params, targetMode, saved, paths, fs, target,
                   proc, clock, host>>

executeDeepCR_validate == Job_validate("DeepCR")

executeCosmicRayRemoval_validate == Job_validate("LACosmic")

\* The export step without the test of what saveAs returned.
Job_export_Unchecked(u) ==
    /\ pc = "export"
    /\ util = u
    /\ paths' = [paths EXCEPT !["input"] = TRUE]
    /\ \E saveAs \in {"ok", "absent", "bad"} :
          /\ fs' = [fs EXCEPT !["input"] = saveAs]
          /\ pc' = "spawn"
          /\ job' = [job EXCEPT !.exports = @ + 1]
    /\ UNCHANGED <<call, util, settings, params, targetMode, saved, target, proc, clock, host>>

\* tempFile = generateSecureTempFilename(); window.saveAs(tempFile, ...).
Job_export(u) ==
    /\ pc = "export"
    /\ util = u
    /\ paths' = [paths EXCEPT !["input"] = TRUE]
    /\ \E saveAs \in {"ok", "absent", "bad"} :
          /\ fs' = [fs EXCEPT !["input"] = saveAs]
          /\ IF saveAs = "ok"
             THEN pc' = "spawn" /\ job' = [job EXCEPT !.exports = @ + 1]
             ELSE pc' = "catch" /\ job' = [Failed("ExportError") EXCEPT !.exports = @ + 1]
    /\ UNCHANGED <<call, util, settings, params, targetMode, saved, target, proc, clock, host>>

executeDeepCR_export == Job_export("DeepCR")

executeCosmicRayRemoval_export == Job_export("LACosmic")

-----------------------------------------------------------------------------
(* run_deepcr.sh and run_lacosmic.sh.                                       *)

SCRIPT_DIR == "/scripts"

VENV_PYTHON == SCRIPT_DIR \o "/deepcr_venv/bin/python3"

\* The paths the wrappers test with [ -x ... ].
ProbedPaths ==
    {VENV_PYTHON, "/opt/homebrew/bin/python3", "/usr/local/bin/python3",
     "/usr/bin/python3"}

\* What a wrapper sees of the machine: PYTHON_EXECUTABLE (unset, empty or a
\* path), which probed paths are executable, whether `command -v python3`
\* succeeds, and whether the CLI script is a file.
Environments ==
    [PYTHON_EXECUTABLE : {[set |-> FALSE, value |-> ""], [set |-> TRUE, value |-> ""],
                          [set |-> TRUE, value |-> "/opt/py/bin/python3"]},
     executable : SUBSET ProbedPaths,
     onPath : BOOLEAN,
     cliScript : BOOLEAN]

\* "${PYTHON_EXECUTABLE:-}"
ExpandOrEmpty(v) == IF v.set THEN v.value ELSE ""

\* Outcomes of a wrapper run: exit 1 after an error message, or exec of the
\* interpreter on the CLI script with the arguments passed through.
WrapperExit(message) == [exited |-> TRUE, exitCode |-> 1, message |-> message, exec |-> ""]

WrapperExec(python) == [exited |-> FALSE, exitCode |-> 0, message |-> "", exec |-> python]

\* run_deepcr.sh with /usr/bin probed before /usr/local.
run_deepcr_sh_UsrBinFirst(env) ==
    LET PYTHON ==
          IF ExpandOrEmpty(env.PYTHON_EXECUTABLE) # "" THEN env.PYTHON_EXECUTABLE.value
          ELSE IF VENV_PYTHON \in env.executable THEN VENV_PYTHON
          ELSE IF "/opt/homebrew/bin/python3" \in env.executable
               THEN "/opt/homebrew/bin/python3"
          ELSE IF "/usr/bin/python3" \in env.executable THEN "/usr/bin/python3"
          ELSE IF "/usr/local/bin/python3" \in env.executable
               THEN "/usr/local/bin/python3"
          ELSE IF env.onPath THEN "python3"
          ELSE ""
    IN  IF PYTHON = "" THEN WrapperExit("ERROR: Python 3 not found")
        ELSE IF ~env.cliScript THEN WrapperExit("ERROR: deepcr_cli.py not found")
        ELSE WrapperExec(PYTHON)

run_deepcr_sh(env) ==
    LET PYTHON ==
          IF ExpandOrEmpty(env.PYTHON_EXECUTABLE) # "" THEN env.PYTHON_EXECUTABLE.value
          ELSE IF VENV_PYTHON \in env.executable THEN VENV_PYTHON
          ELSE IF "/opt/homebrew/bin/python3" \in env.executable
               THEN "/opt/homebrew/bin/python3"
          ELSE IF "/usr/local/bin/python3" \in env.executable
               THEN "/usr/local/bin/python3"
          ELSE IF "/usr/bin/python3" \in env.executable THEN "/usr/bin/python3"
          ELSE IF env.onPath THEN "python3"
          ELSE ""
    IN  IF PYTHON = "" THEN WrapperExit("ERROR: Python 3 not found")
        ELSE IF ~env.cliScript THEN WrapperExit("ERROR: deepcr_cli.py not found")
        ELSE WrapperExec(PYTHON)

run_lacosmic_sh(env) ==
    IF ExpandOrEmpty(env.PYTHON_EXECUTABLE) = ""
       /\ env.executable \cap {"/opt/homebrew/bin/python3", "/usr/local/bin/python3",
                               "/usr/bin/python3"} = {}
       /\ ~env.onPath
    THEN WrapperExit("Error: Python 3 not found")
    ELSE LET PYTHON ==
               IF ExpandOrEmpty(env.PYTHON_EXECUTABLE) # ""
               THEN env.PYTHON_EXECUTABLE.value
               ELSE IF "/opt/homebrew/bin/python3" \in env.executable
                    THEN "/opt/homebrew/bin/python3"
               ELSE IF "/usr/local/bin/python3" \in env.executable
                    THEN "/usr/local/bin/python3"
               ELSE IF "/usr/bin/python3" \in env.executable THEN "/usr/bin/python3"
               ELSE "python3"
         IN  IF ~env.cliScript THEN WrapperExit("Error: lacosmic_cli.py not found")
             ELSE WrapperExec(PYTHON)

RunWrapper(u, env) == IF u = "DeepCR" THEN run_deepcr_sh(env) ELSE run_lacosmic_sh(env)

\* No interpreter can be resolved for the wrapper of `u` in `env`.
NoInterpreter(u, env) ==
    /\ ExpandOrEmpty(env.PYTHON_EXECUTABLE) = ""
    /\ env.executable \cap (IF u = "DeepCR" THEN ProbedPaths
                            ELSE ProbedPaths \ {VENV_PYTHON}) = {}
    /\ ~env.onPath

\* How the wrapper run of a spawned child goes in `env`.
WrapperCourse(u, env) ==
    IF ~RunWrapper(u, env).exited THEN "exec"
    ELSE IF NoInterpreter(u, env) THEN "no interpreter"
    ELSE "no cli script"

\* How the wrapper run of a spawned child can go, over all environments.
WrapperCourses(u) == { WrapperCourse(u, env) : env \in Environments }

\* One run of a wrapper script in a given environment.
WrapperInit ==
    /\ util \in {"DeepCR", "LACosmic"}
    /\ call \in [fn : {"wrapper"}, env : Environments, result : {WrapperExit("")}]
    /\ settings = Defaults(util)
    /\ params = NoParams
    /\ targetMode = "none"
    /\ saved = [exported |-> FALSE, edits |-> 0, imports |-> 0,
                prior |-> settings, at |-> settings]
    /\ pc = "shell"
    /\ PipelineIdle

run_deepcr_sh_run ==
    /\ pc = "shell"
    /\ util = "DeepCR"
    /\ call' = [call EXCEPT !.result = run_deepcr_sh(call.env)]
    /\ pc' = "done"
    /\ UNCHANGED <<util, settings, params, targetMode, saved>>
    /\ UNCHANGED pipeVars

run_lacosmic_sh_run ==
    /\ pc = "shell"
    /\ util = "LACosmic"
    /\ call' = [call EXCEPT !.result = run_lacosmic_sh(call.env)]
    /\ pc' = "done"
    /\ UNCHANGED <<util, settings, params, targetMode, saved>>
    /\ UNCHANGED pipeVars

WrapperNext == run_deepcr_sh_run \/ run_lacosmic_sh_run

WrapperSpec == WrapperInit /\ [][WrapperNext]_vars

\* buildCommandArray, cmd.join(" "), new ExternalProcess, startTime = Date.now().
Job_spawn(u, cmd) ==
    /\ pc = "spawn"
    /\ util = u
    /\ LET cmdString == Join(cmd, " ")
           saveMask  == "--save-mask" \in Range(cmd)
       IN  \E hangs \in BOOLEAN, course \in WrapperCourses(u) :
              /\ hangs => course = "exec"
              /\ proc' = [proc EXCEPT !.state = "running", !.hangs = hangs,
                                      !.cmd = cmdString,
                                      !.maskFlag = saveMask,
                                      !.wrapper = course]
    /\ clock' = [clock EXCEPT !.startTime = clock.now]
    /\ job' = [job EXCEPT !.spawns = @ + 1]
    /\ pc' = "wait"
    /\ UNCHANGED <<call, util, settings, params, targetMode, saved, paths, fs, target, host>>

executeDeepCR_spawn ==
    Job_spawn("DeepCR",
              buildCommandArray_DeepCR(settings,
                  generateSecureTempFilename("DeepCR", clock.now, "k3x9q7w2mzp4")))

executeCosmicRayRemoval_spawn ==
    Job_spawn("LACosmic",
              buildCommandArray_LACosmic(settings,
                  generateSecureTempFilename("LACosmic", clock.now, "k3x9q7w2mzp4")))

\* process.waitForFinished(100): true when the process has ended, at once or
\* at any time within the poll interval; false after the poll interval.
Job_wait(u) ==
    /\ pc = "wait"
    /\ util = u
    /\ IF proc.state = "exited"
       THEN /\ \E d \in {0, PollMs} : clock' = [clock EXCEPT !.now = @ + d]
            /\ pc' = "result"
       ELSE /\ clock' = [clock EXCEPT !.now = @ + PollMs]
            /\ pc' = "check"
    /\ UNCHANGED <<call, util, settings, params, targetMode, saved, paths, fs, target,
                   proc, host, job>>

executeDeepCR_wait == Job_wait("DeepCR")

executeCosmicRayRemoval_wait == Job_wait("LACosmic")

\* processEvents() delivers the pending user events to the widgets that are
\* on screen: a click on the Execute / Clean button of a parameter dialog
\* that is still open runs the button's handler, which starts a job.
processEvents(click, j) ==
    IF click /\ host.parameterDialog THEN [j EXCEPT !.jobs = @ + 1] ELSE j

\* Loop body: processEvents(); if elapsed > TIMEOUT_MS: process.kill(), throw.
Job_check(u) ==
    /\ pc = "check"
    /\ util = u
    /\ \E d \in EventMs, click \in BOOLEAN :
          /\ clock' = [clock EXCEPT !.now = @ + d]
          /\ IF TimedOut(clock.now + d - clock.startTime)
             THEN /\ proc' = [proc EXCEPT
                                 !.state = IF @ = "running" THEN "killed" ELSE @]
                  /\ job' = [processEvents(click, job) EXCEPT !.outcome = "Timeout"]
                  /\ pc' = "catch"
             ELSE /\ proc' = proc
                  /\ job' = processEvents(click, job)
                  /\ pc' = "wait"
    /\ UNCHANGED <<call, util, settings, params, targetMode, saved, paths, fs, target, host>>

executeDeepCR_check == Job_check("DeepCR")

executeCosmicRayRemoval_check == Job_check("LACosmic")

\* What the interpreter may have written to its two streams when it ends
\* (samples): nothing, or progress lines and a Python traceback.
ToolOutputs ==
    {[stdout |-> "", stderr |-> ""],
     [stdout |-> "Cosmic rays detected: 0 pixels", stderr |-> "Traceback: Error: failed"]}

\* What a wrapper that gives up has written: run_deepcr.sh echoes to the
\* standard output, run_lacosmic.sh to the standard error.
WrapperOutput(u, course) ==
    LET message ==
          IF u = "DeepCR"
          THEN IF course = "no interpreter" THEN "ERROR: Python 3 not found"
               ELSE "ERROR: deepcr_cli.py not found"
          ELSE IF course = "no interpreter" THEN "Error: Python 3 not found"
               ELSE "Error: lacosmic_cli.py not found"
    IN  IF u = "DeepCR" THEN [stdout |-> message, stderr |-> ""]
        ELSE [stdout |-> "", stderr |-> message]

\* The external tool, a separate OS process: bash runs the wrapper, which
\* exits with code 1 or replaces itself by the interpreter.  While the
\* interpreter runs it may write its primary output or (when asked for one)
\* its mask, complete or not, and it may end with an exit code unless this
\* invocation hangs.
Tool_write ==
    /\ proc.state = "running"
    /\ proc.wrapper = "exec"
    /\ \E f \in {"output", "mask"}, content \in {"ok", "bad"} :
          /\ fs[f] = "absent"
          /\ f = "mask" => proc.maskFlag
          /\ fs' = [fs EXCEPT ![f] = content]
    /\ UNCHANGED <<call, util, settings, params, targetMode, saved, pc, paths, target,
                   proc, clock, host, job>>

Tool_exit ==
    /\ proc.state = "running"
    /\ ~proc.hangs
    /\ IF proc.wrapper = "exec"
       THEN \E code \in ExitCodes, out \in ToolOutputs :
               proc' = [proc EXCEPT !.state = "exited", !.exitCode = code,
                                    !.stdout = out.stdout, !.stderr = out.stderr]
       ELSE LET out == WrapperOutput(util, proc.wrapper)
            IN  proc' = [proc EXCEPT !.state = "exited", !.exitCode = 1,
                                     !.stdout = out.stdout, !.stderr = out.stderr]
    /\ UNCHANGED <<call, util, settings, params, targetMode, saved, pc, paths, fs,
                   target, clock, host, job>>

\* Images a readable output file may decode to.
DecodedImages ==
    {[width |-> 4096, height |-> 4096, numberOfChannels |-> 1, bitsPerSample |-> 32,
      isReal |-> TRUE, isColor |-> FALSE],
     [width |-> 1024, height |-> 768, numberOfChannels |-> 3, bitsPerSample |-> 16,
      isReal |-> FALSE, isColor |-> TRUE]}

\* new ImageWindow(width, height, numberOfChannels, bitsPerSample, isReal,
\* isColor, id): the geometry and sample type of the window created.
ImageWindow_new(width, height, numberOfChannels, bitsPerSample, isReal, isColor) ==
    [width |-> width, height |-> height, numberOfChannels |-> numberOfChannels,
     bitsPerSample |-> bitsPerSample, isReal |-> isReal, isColor |-> isColor]

\* A result window built with the fixed sample type of DeepCR's mask window.
ResultWindow_FixedSampleType(image) ==
    ImageWindow_new(image.width, image.height, image.numberOfChannels, 8, FALSE, FALSE)

\* The window that receives the primary result in new-window mode.
ResultWindow(image) ==
    ImageWindow_new(image.width, image.height, image.numberOfChannels,
                    image.bitsPerSample, image.isReal, image.isColor)

\* "Get output" with a job that also fails when the tool wrote to stderr.
AfterLoop_FailsOnStderr(stdout, stderr, exitCode) ==
    [console |-> stderr \o stdout, throws |-> ExitCodeFails(exitCode) \/ stderr # ""]

\* "Get output" .. "if (exitCode != 0) throw": stdout, stderr and exitCode are
\* read from the process; stderr, then stdout, go to the console; the job
\* throws on the exit code.
AfterLoop(stdout, stderr, exitCode) ==
    [console |-> stderr \o stdout, throws |-> ExitCodeFails(exitCode)]

\* After the loop: read process.exitCode; throw unless 0; compute the output
\* path(s); throw unless the primary output exists; decode it.  `maskToo`:
\* the mask path is assigned here as well (LACosmic).
Job_result(u, maskToo) ==
    /\ pc = "result"
    /\ util = u
    /\ proc' = [proc EXCEPT !.codeRead = TRUE]
    /\ host' = [host EXCEPT
                   !.console = AfterLoop(proc.stdout, proc.stderr, proc.exitCode).console]
    /\ IF AfterLoop(proc.stdout, proc.stderr, proc.exitCode).throws
       THEN /\ job' = Failed("ProcessFailure")
            /\ paths' = paths
            /\ pc' = "catch"
       ELSE /\ paths' = [paths EXCEPT !["output"] = TRUE,
                                      !["mask"] = IF maskToo THEN TRUE ELSE @]
            /\ IF fs["output"] = "absent"
               THEN /\ job' = [Failed("OutputMissing") EXCEPT !.looked = "missing"]
                    /\ pc' = "catch"
               ELSE IF fs["output"] = "bad"
               THEN /\ job' = [Failed("FormatError") EXCEPT !.looked = "found",
                                                            !.loads = @ + 1]
                    /\ pc' = "catch"
               ELSE /\ \E image \in DecodedImages :
                          job' = [job EXCEPT !.looked = "found", !.loads = @ + 1,
                                             !.image = image]
                    /\ pc' = "apply"
    /\ UNCHANGED <<call, util, settings, params, targetMode, saved, fs, target, clock>>

executeDeepCR_result == Job_result("DeepCR", FALSE)

executeCosmicRayRemoval_result == Job_result("LACosmic", TRUE)

\* Replace mode: beginProcess, image.assign, endProcess on `window`.
\* Otherwise a new ImageWindow receives the image.  A host call may throw.
Job_apply(u) ==
    /\ pc = "apply"
    /\ util = u
    /\ \E throws \in BOOLEAN :
          IF settings.replaceActive
          THEN IF throws
               THEN /\ host' = [host EXCEPT !.bracket = TRUE]
                    /\ target' = target
                    /\ job' = Failed("ApplyError")
                    /\ pc' = "catch"
               ELSE /\ host' = [host EXCEPT
                                  !.other = IF job.window = "other" THEN "result" ELSE @]
                    /\ target' = IF job.window = "target" THEN "result" ELSE target
                    /\ job' = job
                    /\ pc' = "mask"
          ELSE IF throws
               THEN /\ host' = host
                    /\ target' = target
                    /\ job' = Failed("ApplyError")
                    /\ pc' = "catch"
               ELSE /\ host' = [host EXCEPT !.resultWindow = TRUE,
                                            !.resultGeometry = ResultWindow(job.image)]
                    /\ target' = target
                    /\ job' = job
                    /\ pc' = "mask"
    /\ UNCHANGED <<call, util, settings, params, targetMode, saved, paths, fs, proc, clock>>

executeDeepCR_apply == Job_apply("DeepCR")

executeCosmicRayRemoval_apply == Job_apply("LACosmic")

\* "Load mask if requested": when saveMask is set and the mask file exists it
\* is decoded and shown in a new window.  `assignsPath`: the mask path is
\* assigned here (DeepCR).  `next`: where the try block goes on.
Job_mask(u, assignsPath, next) ==
    /\ pc = "mask"
    /\ util = u
    /\ paths' = [paths EXCEPT !["mask"] = IF assignsPath /\ settings.saveMask THEN TRUE ELSE @]
    /\ IF settings.saveMask /\ fs["mask"] # "absent"
       THEN IF fs["mask"] = "bad"
            THEN /\ job' = [Failed("FormatError") EXCEPT !.loads = @ + 1]
                 /\ host' = host
                 /\ pc' = "catch"
            ELSE \E throws \in BOOLEAN :
                    IF throws
                    THEN /\ job' = [Failed("ApplyError") EXCEPT !.loads = @ + 1]
                         /\ host' = host
                         /\ pc' = "catch"
                    ELSE /\ job' = [job EXCEPT !.loads = @ + 1]
                         /\ host' = [host EXCEPT !.maskWindow = TRUE]
                         /\ pc' = next
       ELSE /\ job' = job
            /\ host' = host
            /\ pc' = next
    /\ UNCHANGED <<call, util, settings, params, targetMode, saved, fs, target, proc, clock>>

\* DeepCR: the try block ends after the mask with the "Success!" lines.
executeDeepCR_mask ==
    /\ Job_mask("DeepCR", TRUE, "success")

executeDeepCR_success ==
    /\ pc = "success"
    /\ util = "DeepCR"
    /\ job' = [job EXCEPT !.outcome = "Success"]
    /\ pc' = "finally"
    /\ UNCHANGED <<call, util, settings, params, targetMode, saved, paths, fs, target,
                   proc, clock, host>>

\* DeepCR catch block: console lines and the error MessageBox (modal).
executeDeepCR_catch ==
    /\ pc = "catch"
    /\ util = "DeepCR"
    /\ host' = [host EXCEPT !.dialog = "error"]
    /\ pc' = "finally"
    /\ UNCHANGED <<call, util, settings, params, targetMode, saved, paths, fs, target,
                   proc, clock, job>>

\* DeepCR finally block: three guarded File.remove calls, no try around them.
executeDeepCR_finally ==
    /\ pc = "finally"
    /\ util = "DeepCR"
    /\ \E stuck \in StuckChoices :
          LET r == RemoveFiles(<<"input", "output", "mask">>, paths, fs, stuck, TRUE)
          IN  /\ fs' = r.fs
              /\ job' = [job EXCEPT !.cleanups = @ + 1,
                                    !.attempted = @ \cup r.attempted,
                                    !.escaped = r.threw]
    /\ pc' = "returned"
    /\ UNCHANGED <<call, util, settings, params, targetMode, saved, paths, target, proc,
                   clock, host>>

\* cleanupTempFiles([tempFile, outputPath, maskPath]): each removal in its
\* own try/catch, a failure is a console warning.
cleanupTempFiles(next, outcome) ==
    /\ \E stuck \in StuckChoices :
          LET r == RemoveFiles(<<"input", "output", "mask">>, paths, fs, stuck, FALSE)
          IN  /\ fs' = r.fs
              /\ job' = [job EXCEPT !.cleanups = @ + 1,
                                    !.attempted = @ \cup r.attempted,
                                    !.warnings = @ + Cardinality(r.attempted \cap stuck),
                                    !.outcome = outcome]
    /\ pc' = next

executeCosmicRayRemoval_mask ==
    /\ Job_mask("LACosmic", FALSE, "cleanup")

\* LACosmic, end of the try block: cleanup, then the success lines.
executeCosmicRayRemoval_success ==
    /\ pc = "cleanup"
    /\ util = "LACosmic"
    /\ cleanupTempFiles("returned", "Success")
    /\ UNCHANGED <<call, util, settings, params, targetMode, saved, paths, target, proc,
                   clock, host>>

\* LACosmic catch block without its cleanupTempFiles call.
executeCosmicRayRemoval_catch_NoCleanup ==
    /\ pc = "catch"
    /\ util = "LACosmic"
    /\ pc' = "returned"
    /\ host' = [host EXCEPT !.dialog = "error"]
    /\ UNCHANGED <<call, util, settings, params, targetMode, saved, paths, target, proc,
                   clock, fs, job>>

\* LACosmic catch block: cleanup, then the error MessageBox.
executeCosmicRayRemoval_catch ==
    /\ pc = "catch"
    /\ util = "LACosmic"
    /\ cleanupTempFiles("returned", job.outcome)
    /\ host' = [host EXCEPT !.dialog = "error"]
    /\ UNCHANGED <<call, util, settings, params, targetMode, saved, paths, target, proc,
                   clock>>

-----------------------------------------------------------------------------
(* applyCosmeticCorrection.                                                 *)

\* Both temp paths are computed before the try block; Step 1 saves the view.
applyCosmeticCorrection_save ==
    /\ pc = "job"
    /\ util = "CC"
    /\ paths' = [paths EXCEPT !["input"] = TRUE, !["output"] = TRUE]
    /\ \E saveAs \in {"ok", "absent", "bad"} :
          /\ fs' = [fs EXCEPT !["input"] = saveAs]
          /\ IF saveAs = "ok"
             THEN /\ pc' = "process"
                  /\ job' = [job EXCEPT !.jobs = @ + 1, !.exports = @ + 1]
             ELSE /\ pc' = "catch"
                  /\ job' = [Failed("ExportError") EXCEPT !.jobs = @ + 1,
                                                          !.exports = @ + 1]
    /\ UNCHANGED <<call, util, settings, params, targetMode, saved, target, proc, clock, host>>

\* Position of the last occurrence of the character ch in str, 0 if none.
lastIndexOf(str, ch) ==
    LET hits == {i \in 1..Len(str) : SubSeq(str, i, i) = ch}
    IN  IF hits = {} THEN 0 ELSE CHOOSE i \in hits : \A k \in hits : k <= i

\* The name of a file path without its directories and its extension.
extractName(path) ==
    LET slash == lastIndexOf(path, "/")
        dot   == lastIndexOf(path, ".")
    IN  SubSeq(path, slash + 1, IF dot > slash THEN dot - 1 ELSE Len(path))

\* File-naming properties a CosmeticCorrection instance saved as a process
\* icon may hold: the process defaults, another postfix, another extension.
SavedInstances ==
    {[prefix |-> "", postfix |-> "_cc", outputExtension |-> ".xisf", outputDir |-> ""],
     [prefix |-> "", postfix |-> "_c", outputExtension |-> ".xisf", outputDir |-> "/data"],
     [prefix |-> "", postfix |-> "_cc", outputExtension |-> ".fit", outputDir |-> ""]}

\* Step 2: the instance from the icon with targetFrames and outputDir
\* overridden, or a new instance set up from the dialog values.
ConfigureInstance(s, icon, inputFile) ==
    IF s.useProcessIcon /\ s.processIconId # ""
    THEN [targetFrame |-> inputFile, outputDir |-> TempDir,
          outputExtension |-> icon.outputExtension,
          prefix |-> icon.prefix, postfix |-> icon.postfix]
    ELSE [targetFrame |-> inputFile, outputDir |-> TempDir,
          outputExtension |-> ".xisf", prefix |-> "", postfix |-> "_cc"]

\* The file CosmeticCorrection writes for its target frame.
InstanceOutputFile(CC) ==
    CC.outputDir \o "/" \o CC.prefix \o extractName(CC.targetFrame)
        \o CC.postfix \o CC.outputExtension

\* Steps 2-4 up to the opened result: configure the process (from the icon
\* or from the settings), CC.executeGlobal(), File.exists(tempOutputFile),
\* ImageWindow.open(tempOutputFile).  executeGlobal() is a synchronous call:
\* the script goes on when it returns or throws, and waits as long as it
\* does neither ("blocked").
applyCosmeticCorrection_process ==
    /\ pc = "process"
    /\ util = "CC"
    /\ \E written \in {"absent", "bad", "ok"}, throws \in BOOLEAN, returns \in BOOLEAN,
          icon \in SavedInstances :
          LET CC    == ConfigureInstance(settings, icon, tempInputFile(clock.now))
              found == IF InstanceOutputFile(CC) = tempOutputFile(clock.now)
                       THEN written ELSE "absent"
              j     == [job EXCEPT !.ccOutput = InstanceOutputFile(CC)]
          IN  /\ fs' = [fs EXCEPT !["output"] = found]
              /\ IF ~returns
                 THEN /\ job' = j
                      /\ host' = host
                      /\ pc' = "blocked"
                 ELSE IF throws
                 THEN /\ job' = [j EXCEPT !.outcome = "ProcessFailure"]
                      /\ host' = host
                      /\ pc' = "catch"
                 ELSE IF found = "absent"
                 THEN /\ job' = [j EXCEPT !.outcome = "OutputMissing",
                                          !.looked = "missing"]
                      /\ host' = host
                      /\ pc' = "catch"
                 ELSE IF found = "bad"
                 THEN /\ job' = [j EXCEPT !.outcome = "FormatError",
                                          !.looked = "found", !.loads = @ + 1]
                      /\ host' = host
                      /\ pc' = "catch"
                 ELSE /\ job' = [j EXCEPT !.looked = "found", !.loads = @ + 1]
                      /\ host' = [host EXCEPT !.tempWindow = TRUE]
                      /\ pc' = "apply"
    /\ UNCHANGED <<call, util, settings, params, targetMode, saved, paths, target, proc, clock>>

\* beginProcess, image.assign, endProcess on the target view, then
\* resultWindow.forceClose(), the success lines and the success MessageBox.
applyCosmeticCorrection_apply ==
    /\ pc = "apply"
    /\ util = "CC"
    /\ target' = "result"
    /\ job' = [job EXCEPT !.outcome = "Success"]
    /\ host' = [host EXCEPT !.tempWindow = FALSE, !.dialog = "success"]
    /\ pc' = "finally"
    /\ UNCHANGED <<call, util, settings, params, targetMode, saved, paths, fs, proc, clock>>

\* catch block: console lines and the error MessageBox.
applyCosmeticCorrection_catch ==
    /\ pc = "catch"
    /\ util = "CC"
    /\ host' = [host EXCEPT !.dialog = "error"]
    /\ pc' = "finally"
    /\ UNCHANGED <<call, util, settings, params, targetMode, saved, paths, fs, target,
                   proc, clock, job>>

\* finally block: both removals inside one try; its catch prints a warning.
applyCosmeticCorrection_finally ==
    /\ pc = "finally"
    /\ util = "CC"
    /\ \E stuck \in StuckChoices :
          LET r == RemoveFiles(<<"input", "output">>, paths, fs, stuck, TRUE)
          IN  /\ fs' = r.fs
              /\ job' = [job EXCEPT !.cleanups = @ + 1,
                                    !.attempted = @ \cup r.attempted,
                                    !.warnings = @ + (IF r.threw THEN 1 ELSE 0)]
    /\ pc' = "returned"
    /\ UNCHANGED <<call, util, settings, params, targetMode, saved, paths, target, proc,
                   clock, host>>

-----------------------------------------------------------------------------

Next ==
    \/ main_DeepCR
    \/ main_LACosmic
    \/ main_CC
    \/ saveMaskCheck_onCheck
    \/ replaceActiveCheck_onCheck
    \/ thresholdEdit_onTextUpdated
    \/ lacosmicEdit_onTextUpdated
    \/ niterSpin_onValueUpdated
    \/ executeButton_onClick
    \/ cleanButton_onClick
    \/ ok_Button_onClick
    \/ useIcon_CheckBox_onCheck
    \/ processIcon_Edit_onTextUpdated
    \/ cancelButton_onClick
    \/ executeDeepCR_validate
    \/ executeDeepCR_export
    \/ executeDeepCR_spawn
    \/ executeDeepCR_wait
    \/ executeDeepCR_check
    \/ executeDeepCR_result
    \/ executeDeepCR_apply
    \/ executeDeepCR_mask
    \/ executeDeepCR_success
    \/ executeDeepCR_catch
    \/ executeDeepCR_finally
    \/ executeCosmicRayRemoval_validate
    \/ executeCosmicRayRemoval_export
    \/ executeCosmicRayRemoval_spawn
    \/ executeCosmicRayRemoval_wait
    \/ executeCosmicRayRemoval_check
    \/ executeCosmicRayRemoval_result
    \/ executeCosmicRayRemoval_apply
    \/ executeCosmicRayRemoval_mask
    \/ executeCosmicRayRemoval_success
    \/ executeCosmicRayRemoval_catch
    \/ applyCosmeticCorrection_save
    \/ applyCosmeticCorrection_process
    \/ applyCosmeticCorrection_apply
    \/ applyCosmeticCorrection_catch
    \/ applyCosmeticCorrection_finally
    \/ Tool_write
    \/ Tool_exit

Spec == Init /\ [][Next]_vars

\* A step of the script inside a job function.  The script engine keeps
\* running the job function; the external tool and the user are not obliged
\* to do anything.
JobStep ==
    \/ executeDeepCR_validate \/ executeDeepCR_export \/ executeDeepCR_spawn
    \/ executeDeepCR_wait \/ executeDeepCR_check \/ executeDeepCR_result
    \/ executeDeepCR_apply \/ executeDeepCR_mask \/ executeDeepCR_success
    \/ executeDeepCR_catch \/ executeDeepCR_finally
    \/ executeCosmicRayRemoval_validate \/ executeCosmicRayRemoval_export
    \/ executeCosmicRayRemoval_spawn \/ executeCosmicRayRemoval_wait
    \/ executeCosmicRayRemoval_check \/ executeCosmicRayRemoval_result
    \/ executeCosmicRayRemoval_apply \/ executeCosmicRayRemoval_mask
    \/ executeCosmicRayRemoval_success \/ executeCosmicRayRemoval_catch
    \/ applyCosmeticCorrection_save \/ applyCosmeticCorrection_process
    \/ applyCosmeticCorrection_apply \/ applyCosmeticCorrection_catch
    \/ applyCosmeticCorrection_finally

FairSpec == Init /\ [][Next]_vars /\ WF_vars(JobStep)

-----------------------------------------------------------------------------
(* Properties of the job.                                                   *)

Returned == pc = "returned"

JobFailed == job.outcome \notin {"none", "Success"}

NothingShown == target = "orig" /\ ~host.resultWindow /\ ~host.maskWindow

\* The documented domain of the numeric parameters (the ranges the dialogs
\* enforce on their edit fields and spin box).
InDomain(u, s) ==
    CASE u = "DeepCR" -> ~ThresholdRejected([isNaN |-> FALSE, value |-> s.threshold])
      [] u = "LACosmic" ->
           /\ \A field \in DOMAIN LACosmicRange :
                 /\ s[field] >= LACosmicRange[field].lo
                 /\ s[field] <= LACosmicRange[field].hi
           /\ s.niter \in 1..10
      [] OTHER -> TRUE

\* C1 (cleanup totality): when the job function has returned and no removal
\* failed, none of the job's temp files (exported input, primary output,
\* mask) exists any more, whatever way the job ended.
CleanupTotality ==
    (Returned /\ job.warnings = 0 /\ ~job.escaped)
        => \A f \in Files : fs[f] = "absent"

\* C2 (no partial application): whenever the job has failed, the target
\* image still has the pixel content it had before the job started.
NoPartialApplication == JobFailed => target = "orig"

\* C3 (timeout enforcement, DeepCR and LACosmic): the supervision loop never
\* goes on polling once the elapsed time exceeds TIMEOUT_MS; a process that
\* never terminates makes the job fail with a timeout and nothing else; and
\* after a timeout the child is not running (killed if it hung), no exit
\* code was read and no output was looked for, loaded or applied.
TimeoutEnforcement ==
    /\ pc = "wait" => clock.now - clock.startTime <= 600000
    /\ (proc.hangs /\ job.outcome # "none") => job.outcome = "Timeout"
    /\ (proc.hangs /\ Returned) => job.outcome = "Timeout"
    /\ job.outcome = "Timeout" =>
          /\ proc.state # "running"
          /\ proc.hangs => proc.state = "killed"
          /\ ~proc.codeRead
          /\ job.looked = "no"
          /\ job.loads = 0
          /\ NothingShown

TimeoutWitness ==
    /\ Returned
    /\ proc.hangs
    /\ proc.state = "killed"
    /\ job.outcome = "Timeout"
    /\ clock.now - clock.startTime > 600000

\* C4 (exit-code gating): a file is decoded only after the process ended
\* with exit code 0 and the primary output was found; a non-zero exit code
\* fails the job as ProcessFailure with no output looked for, decoded or
\* applied; exit code 0 with the output absent fails it as OutputMissing
\* with nothing decoded or applied.
ExitCodeGating ==
    /\ job.loads > 0 =>
          /\ job.looked = "found"
          /\ util \in {"DeepCR", "LACosmic"} =>
                proc.state = "exited" /\ proc.codeRead /\ proc.exitCode = 0
    /\ (proc.codeRead /\ proc.exitCode # 0) =>
          /\ job.outcome = "ProcessFailure"
          /\ job.looked = "no"
          /\ job.loads = 0
          /\ NothingShown
    /\ job.looked = "missing" =>
          /\ job.outcome = "OutputMissing"
          /\ job.loads = 0
          /\ NothingShown

ExitCodeWitness ==
    /\ Returned
    /\ proc.codeRead
    /\ proc.exitCode = 255
    /\ fs["output"] = "ok"
    /\ job.outcome = "ProcessFailure"

\* C5 (cleanup precedes the report): whenever an outcome message box (success
\* or error) is on screen, the job's temp-file cleanup has already run.
CleanupPrecedesReport == host.dialog # "none" => job.cleanups >= 1

\* C6 (cleanup exactly once): a job never runs its cleanup twice, and when
\* the job function has returned, by whatever path, cleanup has run once.
CleanupExactlyOnce ==
    /\ job.jobs <= 1
    /\ job.cleanups <= 1
    /\ Returned => job.jobs = 1 /\ job.cleanups = 1

CleanupOnceWitness ==
    /\ Returned
    /\ job.outcome = "ApplyError"
    /\ job.loads > 0
    /\ job.cleanups = 1

\* C7 (removal failure is a warning): when the job function has returned, no
\* removal error has been raised out of it and removal was attempted on every
\* temp file of the job that is still on disk.
RemovalFailureIsWarning ==
    Returned =>
        /\ ~job.escaped
        /\ \A f \in Files : (paths[f] /\ fs[f] # "absent") => f \in job.attempted

\* C8 (validation before launch): an external process is only ever spawned
\* for settings whose numeric parameters lie in their documented domain.
ValidationBeforeLaunch == job.spawns > 0 => InDomain(util, settings)

\* C11 (non-interactive entry): a script started on a view target from a
\* saved instance never shows its parameter dialog.
ViewTargetBypassesDialog == targetMode = "view" => ~host.parameterDialog

\* C13 (no result past the budget): the exit code is read, and a job
\* succeeds, only while the time elapsed since the launch is within
\* TIMEOUT_MS.
ResultWithinBudget ==
    (proc.codeRead \/ job.outcome = "Success")
        => clock.now - clock.startTime <= 600000

\* The probed paths of each wrapper, in the listed order.
ListedOrder ==
    [DeepCR   |-> <<VENV_PYTHON, "/opt/homebrew/bin/python3", "/usr/local/bin/python3",
                    "/usr/bin/python3">>,
     LACosmic |-> <<"/opt/homebrew/bin/python3", "/usr/local/bin/python3",
                    "/usr/bin/python3">>]

\* C20 (interpreter precedence): after a wrapper run, if no interpreter was
\* found or the CLI script is missing the wrapper has exited with code 1 and
\* run nothing; otherwise it runs PYTHON_EXECUTABLE when that is set and
\* non-empty, else the first executable path in the listed order, else
\* python3 from the search path.
InterpreterPrecedence ==
    (pc = "done" /\ call.fn = "wrapper") =>
        LET env   == call.env
            r     == call.result
            order == ListedOrder[util]
            hits  == { i \in 1..Len(order) : order[i] \in env.executable }
            over  == env.PYTHON_EXECUTABLE.set /\ env.PYTHON_EXECUTABLE.value # ""
            found == over \/ hits # {} \/ env.onPath
        IN  IF ~found \/ ~env.cliScript
            THEN r.exited /\ r.exitCode = 1 /\ r.exec = ""
            ELSE /\ ~r.exited
                 /\ over => r.exec = env.PYTHON_EXECUTABLE.value
                 /\ (~over /\ hits # {}) =>
                       \E i \in hits : r.exec = order[i] /\ \A j \in hits : i <= j
                 /\ (~over /\ hits = {}) => r.exec = "python3"

InterpreterWitness ==
    /\ pc = "done"
    /\ call.fn = "wrapper"
    /\ util = "DeepCR"
    /\ ~call.env.PYTHON_EXECUTABLE.set
    /\ call.env.executable = {"/usr/local/bin/python3", "/usr/bin/python3"}
    /\ call.env.cliScript
    /\ call.result.exec = "/usr/local/bin/python3"

\* C12 (no interpreter, no child): when a job has returned and no interpreter
\* could be resolved for it, the job failed with a launch error and no child
\* process was spawned for it.
NoInterpreterIsLaunchError ==
    (Returned /\ proc.wrapper = "no interpreter")
        => (job.outcome = "LaunchError" /\ job.spawns = 0)

\* C14 (every job terminates): a job that has started eventually returns,
\* in every utility.
JobsTerminate == (pc = "job") ~> Returned

\* C15 (balanced process bracket): no job returns with the target view left
\* between beginProcess and endProcess.
BracketsAreClosed == Returned => ~host.bracket

\* C18 (mask presented when requested): a job that succeeded with saveMask
\* set has shown a mask window, and a mask window is only ever created by a
\* job with saveMask set.
MaskShownWhenRequested ==
    /\ (job.outcome = "Success" /\ util \in {"DeepCR", "LACosmic"} /\ settings.saveMask)
          => host.maskWindow
    /\ host.maskWindow => settings.saveMask

\* C17 (new-window mode, DeepCR and LACosmic): while replaceActive is off the
\* target image is never modified and never inside a process bracket; a
\* result window exists only in that mode, after a successful load, and has
\* the geometry and sample type of the loaded image.
NewWindowLeavesTarget ==
    /\ (util \in {"DeepCR", "LACosmic"} /\ ~settings.replaceActive)
          => (target = "orig" /\ ~host.bracket)
    /\ host.resultWindow =>
          /\ ~settings.replaceActive
          /\ job.image \in DecodedImages
          /\ host.resultGeometry = job.image
    /\ ~host.resultWindow => host.resultGeometry = NoImage

NewWindowWitness ==
    /\ Returned
    /\ util = "LACosmic"
    /\ ~settings.replaceActive
    /\ host.resultWindow
    /\ host.resultGeometry.bitsPerSample = 16
    /\ host.resultGeometry.isColor
    /\ JobFailed
    /\ target = "orig"

\* C16 (one job per target): at most one job is ever started; while a job is
\* running (from its first statement to its return) no parameter dialog is
\* open whose callbacks the event loop could run; and the target is touched
\* only after that one job has loaded its result.
SingleJobPerTarget ==
    /\ job.jobs <= 1
    /\ pc \notin {"main", "dialog", "exit"} => ~host.parameterDialog
    /\ (target # "orig" \/ host.bracket) => (job.jobs = 1 /\ job.loads >= 1)

SingleJobWitness ==
    /\ pc = "wait"
    /\ targetMode = "global"
    /\ util = "DeepCR"
    /\ proc.state = "running"
    /\ clock.now - clock.startTime >= 600000
    /\ job.jobs = 1

\* C22 (no retry): a job exports at most once and spawns at most one
\* process; a process is spawned only after an export that succeeded (the
\* exported file is there, intact, until cleanup); a failed export ends the
\* job with no process spawned; and once the job function has returned no
\* step of any job function can be taken.
NoRetry ==
    /\ job.exports <= 1
    /\ job.spawns <= 1
    /\ job.spawns > 0 => (job.exports = 1 /\ job.outcome # "ExportError")
    /\ (job.spawns > 0 /\ job.cleanups = 0) => fs["input"] = "ok"
    /\ job.outcome = "ExportError" => job.spawns = 0
    /\ Returned => ~ENABLED JobStep

\* Witness for C22: a job whose export failed has returned.
NoRetryWitness ==
    /\ Returned
    /\ util = "LACosmic"
    /\ job.outcome = "ExportError"
    /\ job.exports = 1
    /\ job.spawns = 0
    /\ job.cleanups = 1

\* C23 (captured output is not parsed, DeepCR and LACosmic): whether the job
\* throws after the loop is the same for every captured stdout and stderr;
\* once the exit code is read the job is a ProcessFailure exactly when the
\* code is not 0, and with code 0 the output file is looked for; the
\* captured text goes to the console in full.
CapturedOutputNotParsed ==
    /\ pc = "result" =>
          \A o \in ToolOutputs :
             AfterLoop(o.stdout, o.stderr, proc.exitCode).throws
                 = AfterLoop(proc.stdout, proc.stderr, proc.exitCode).throws
    /\ (util \in {"DeepCR", "LACosmic"} /\ proc.codeRead) =>
          /\ (job.outcome = "ProcessFailure") <=> (proc.exitCode # 0)
          /\ proc.exitCode = 0 => job.looked # "no"
    /\ host.console = IF proc.codeRead THEN proc.stderr \o proc.stdout ELSE ""

\* Witness for C23: a job succeeded although the tool wrote a traceback.
CapturedOutputWitness ==
    /\ Returned
    /\ job.outcome = "Success"
    /\ proc.exitCode = 0
    /\ proc.stderr # ""
    /\ host.console # ""
    /\ target = "result"

\* C29 (CosmeticCorrection output file): the file the configured instance
\* writes is the file the job looks for, loads and removes, whether the
\* instance was set up from the dialog values or taken from a process icon.
InstanceWritesExpectedFile ==
    (util = "CC" /\ job.ccOutput # "") => job.ccOutput = tempOutputFile(clock.now)

\* C25 (the view target is the image processed): a script applied to a view
\* exports and updates the window of that view and no other window.
ViewTargetIsProcessed ==
    targetMode = "view" => (job.window \in {"none", "target"} /\ host.other = "orig")

-----------------------------------------------------------------------------
(* loadImage (DeepCR) and loadFITSImage (LACosmic).                         *)

UpperCaseLetters == "ABCDEFGHIJKLMNOPQRSTUVWXYZ"

LowerCaseLetters == "abcdefghijklmnopqrstuvwxyz"

\* String.prototype.toLowerCase: letter by letter.
LowerChar(ch) ==
    IF \E i \in 1..Len(UpperCaseLetters) : SubSeq(UpperCaseLetters, i, i) = ch
    THEN LET i == CHOOSE i \in 1..Len(UpperCaseLetters) : SubSeq(UpperCaseLetters, i, i) = ch
         IN  SubSeq(LowerCaseLetters, i, i)
    ELSE ch

RECURSIVE toLowerCase(_)
toLowerCase(str) ==
    IF Len(str) = 0 THEN ""
    ELSE LowerChar(SubSeq(str, 1, 1)) \o toLowerCase(SubSeq(str, 2, Len(str)))

\* String.prototype.endsWith
endsWith(str, suffix) ==
    /\ Len(str) >= Len(suffix)
    /\ SubSeq(str, Len(str) - Len(suffix) + 1, Len(str)) = suffix

\* What is stored at a path: nothing, an XISF file, a FITS file, or bytes no
\* decoder accepts.
FileContents == {"absent", "xisf", "fits", "garbage"}

\* Result of a load: the error thrown ("" if none), whether file.open was
\* called, the FileFormat chosen ("" if none), whether an image was returned.
LoadResult(error, opened, formatExt) ==
    [error |-> error, opened |-> opened, formatExt |-> formatExt, image |-> error = ""]

\* new FileFormat(formatExt, ...), file.open(path, "r"), file.readImage(image).
ReadWithFormat(formatExt, path, content, what) ==
    IF content = "absent"
    THEN LoadResult("Cannot open " \o what \o " file: " \o path, TRUE, formatExt)
    ELSE IF "." \o content # formatExt
    THEN LoadResult("Cannot read " \o what \o ": " \o path, TRUE, formatExt)
    ELSE LoadResult("", TRUE, formatExt)

loadImage(path, content) ==
    LET extension == toLowerCase(path)
    IN  IF endsWith(extension, ".xisf") THEN ReadWithFormat(".xisf", path, content, "image")
        ELSE IF endsWith(extension, ".fits") \/ endsWith(extension, ".fit")
        THEN ReadWithFormat(".fits", path, content, "image")
        ELSE LoadResult("Unsupported image format: " \o path, FALSE, "")

loadFITSImage(path, content) == ReadWithFormat(".fits", path, content, "FITS")

\* Paths handed to a loader.
LoaderPaths ==
    {"/tmp/bbdcr_1_k3_cleaned.xisf", "/tmp/IMG.XISF", "/tmp/bblac_1_k3_crr.fits",
     "/tmp/m31.FIT", "/tmp/m31.Fits", "/tmp/m31.png", "/tmp/m31.fits.bak", "/tmp/xisf"}

\* One call of a loader on a path.
LoaderInit ==
    /\ util \in {"DeepCR", "LACosmic"}
    /\ call \in [fn : {"load"}, path : LoaderPaths, content : FileContents,
                 result : {LoadResult("", FALSE, "")}]
    /\ settings = Defaults(util)
    /\ params = NoParams
    /\ targetMode = "none"
    /\ saved = [exported |-> FALSE, edits |-> 0, imports |-> 0,
                prior |-> settings, at |-> settings]
    /\ pc = "load"
    /\ PipelineIdle

loadImage_call ==
    /\ pc = "load"
    /\ util = "DeepCR"
    /\ call' = [call EXCEPT !.result = loadImage(call.path, call.content)]
    /\ pc' = "loaded"
    /\ UNCHANGED <<util, settings, params, targetMode, saved>>
    /\ UNCHANGED pipeVars

loadFITSImage_call ==
    /\ pc = "load"
    /\ util = "LACosmic"
    /\ call' = [call EXCEPT !.result = loadFITSImage(call.path, call.content)]
    /\ pc' = "loaded"
    /\ UNCHANGED <<util, settings, params, targetMode, saved>>
    /\ UNCHANGED pipeVars

LoaderNext == loadImage_call \/ loadFITSImage_call

LoaderSpec == LoaderInit /\ [][LoaderNext]_vars

-----------------------------------------------------------------------------
(* Allocation of temp input paths: two allocations by the same script in    *)
(* the same millisecond.                                                    *)

AllocInit ==
    /\ util \in Utils
    /\ call \in [fn : {"alloc"}, now : Timestamps,
                  draws : RandomParts \X RandomParts, allocated : {<<>>}]
    /\ settings = Defaults(util)
    /\ params = NoParams
    /\ targetMode = "none"
    /\ saved = [exported |-> FALSE, edits |-> 0, imports |-> 0,
                prior |-> settings, at |-> settings]
    /\ pc = "alloc"
    /\ PipelineIdle

\* tempFile = generateSecureTempFilename() in DeepCR and LACosmic.
generateSecureTempFilename_call ==
    /\ pc = "alloc"
    /\ util \in {"DeepCR", "LACosmic"}
    /\ Len(call.allocated) < 2
    /\ call' = [call EXCEPT !.allocated =
                   Append(@, generateSecureTempFilename(util, call.now,
                                 call.draws[Len(call.allocated) + 1]))]
    /\ UNCHANGED <<util, settings, params, targetMode, saved, pc>>
    /\ UNCHANGED pipeVars

\* timestamp = Date.now(); tempInputFile = ... in CosmeticCorrection (there
\* is no random draw to use).
applyCosmeticCorrection_paths ==
    /\ pc = "alloc"
    /\ util = "CC"
    /\ Len(call.allocated) < 2
    /\ call' = [call EXCEPT !.allocated = Append(@, tempInputFile(call.now))]
    /\ UNCHANGED <<util, settings, params, targetMode, saved, pc>>
    /\ UNCHANGED pipeVars

AllocNext == generateSecureTempFilename_call \/ applyCosmeticCorrection_paths

AllocSpec == AllocInit /\ [][AllocNext]_vars

\* C21 (temp paths do not collide): two paths allocated in the same
\* millisecond with different random draws are different, in each of the
\* three utilities, and allocating creates no file.
SameMillisecondPathsDistinct ==
    (call.fn = "alloc" /\ Len(call.allocated) = 2) =>
        /\ call.draws[1] # call.draws[2] => call.allocated[1] # call.allocated[2]
        /\ fs = EmptyTemp

-----------------------------------------------------------------------------
(* From the argument list to the launched process: buildCommandArray,       *)
(* cmd.join(" "), new ExternalProcess(cmdString).                           *)

\* Position of the first space of str at or after position i; Len(str) + 1
\* if there is none.
NextSpace(str, i) ==
    LET spaces == { k \in i..Len(str) : SubSeq(str, k, k) = " " }
    IN  IF spaces = {} THEN Len(str) + 1
        ELSE CHOOSE k \in spaces : \A m \in spaces : k <= m

\* new ExternalProcess(commandLine): the host cuts the command line into
\* program and arguments at the spaces (the part of str from position i on).
RECURSIVE SplitCommandLine(_, _)
SplitCommandLine(str, i) ==
    IF i > Len(str) THEN <<>>
    ELSE LET k == NextSpace(str, i)
         IN  (IF k = i THEN <<>> ELSE <<SubSeq(str, i, k - 1)>>)
                 \o SplitCommandLine(str, k + 1)

\* Where the wrapper script may be installed: the sample directory of the
\* model, and the scripts directory install.sh copies the module to on macOS.
ScriptPaths(u) ==
    {Defaults(u).wrapperScript,
     "/Users/me/Library/Application Support/PixInsight/scripts/BB-Astro/"
         \o (IF u = "DeepCR" THEN "BB-Astro_DeepCosmicRay/run_deepcr.sh"
                              ELSE "BB-Astro_LAcosmic/run_lacosmic.sh")}

\* Input paths: a generated temp file name, in a temp directory without and
\* with a space in its name.
InputPaths(u) ==
    {generateSecureTempFilename(u, 1700, "0a1b2c"),
     "/Volumes/Scratch Disk" \o generateSecureTempFilename(u, 1700, "0a1b2c")}

CommandInit ==
    /\ util \in {"DeepCR", "LACosmic"}
    /\ \E s \in SettingsSamples(util), w \in ScriptPaths(util) :
          settings = [s EXCEPT !.wrapperScript = w]
    /\ call \in [fn : {"command"}, inputPath : InputPaths(util),
                  cmd : {<<>>}, cmdString : {""}, argv : {<<>>}]
    /\ params = NoParams
    /\ targetMode = "none"
    /\ saved = [exported |-> FALSE, edits |-> 0, imports |-> 0,
                prior |-> settings, at |-> settings]
    /\ pc = "build"
    /\ PipelineIdle

\* cmd = buildCommandArray(tempFile); cmdString = cmd.join(" ");
\* process = new ExternalProcess(cmdString).
Launch(cmd) ==
    /\ pc = "build"
    /\ call' = [call EXCEPT !.cmd = cmd, !.cmdString = Join(cmd, " "),
                            !.argv = SplitCommandLine(Join(cmd, " "), 1)]
    /\ pc' = "launched"
    /\ UNCHANGED <<util, settings, params, targetMode, saved>>
    /\ UNCHANGED pipeVars

executeDeepCR_launch ==
    /\ util = "DeepCR"
    /\ Launch(buildCommandArray_DeepCR(settings, call.inputPath))

executeCosmicRayRemoval_launch ==
    /\ util = "LACosmic"
    /\ Launch(buildCommandArray_LACosmic(settings, call.inputPath))

CommandNext == executeDeepCR_launch \/ executeCosmicRayRemoval_launch

CommandSpec == CommandInit /\ [][CommandNext]_vars

\* C24 (argument vector reaches the tool intact): the arguments the host
\* makes of the launched command line are the list buildCommandArray built,
\* element for element.
ArgumentsSurviveJoin ==
    (call.fn = "command" /\ pc = "launched") => call.argv = call.cmd

\* C26 (the selected model reaches the tool): the argument list built for
\* DeepCR settings differs from the one built for the same settings with
\* the other model.
ModelReachesTool ==
    (call.fn = "command" /\ pc = "launched" /\ util = "DeepCR") =>
        call.cmd # buildCommandArray_DeepCR(
                       [settings EXCEPT !.model = IF @ = "WFC3-UVIS" THEN "ACS-WFC"
                                                 ELSE "WFC3-UVIS"],
                       call.inputPath)

-----------------------------------------------------------------------------
(* The DeepCR dialog on its own: every handler of its preset, model and     *)
(* threshold controls, the new-instance button, and the script started      *)
(* again from the saved instance.                                           *)

DialogInit ==
    /\ call = NoCall
    /\ util = "DeepCR"
    /\ settings = BBDeepCR
    /\ params = NoParams
    /\ targetMode = "none"
    /\ saved = [exported |-> FALSE, edits |-> 0, imports |-> 0,
                prior |-> settings, at |-> settings]
    /\ pc = "dialog"
    /\ paths = NoPaths
    /\ fs = EmptyTemp
    /\ target = "orig"
    /\ proc = NoProcess
    /\ clock = [now |-> 0, startTime |-> 0]
    /\ host = BBDeepCRDialog(BBDeepCR, NoHost)
    /\ job = NoJob

\* newInstanceButton.onMousePress while the dialog is open: the dialog stays.
newInstanceButton_onMousePress_DeepCR ==
    /\ pc = "dialog"
    /\ util = "DeepCR"
    /\ params' = exportParameters_DeepCR(settings, params)
    /\ saved' = [saved EXCEPT !.exported = TRUE, !.at = settings]
    /\ UNCHANGED <<call, util, settings, targetMode, pc>>
    /\ UNCHANGED pipeVars

\* The dialog has been left; the script is started again from the saved
\* instance: a fresh script run, so the globals are the defaults again.
LaunchSavedInstance ==
    /\ pc = "exit"
    /\ saved.exported
    /\ saved.imports < MaxImports
    /\ settings' = BBDeepCR
    /\ targetMode' \in {"global", "view"}
    /\ host' = [NoHost EXCEPT !.edits = host.edits]
    /\ saved' = [saved EXCEPT !.imports = @ + 1]
    /\ pc' = "main"
    /\ UNCHANGED <<call, util, params, paths, fs, target, proc, clock, job>>

DialogNext ==
    \/ \E index \in 0..4 : presetCombo_onItemSelected(index)
    \/ modelCombo_onItemSelected
    \/ thresholdEdit_onTextUpdated
    \/ executeButton_onClick
    \/ cancelButton_onClick
    \/ newInstanceButton_onMousePress_DeepCR
    \/ LaunchSavedInstance
    \/ main_DeepCR

DialogSpec == DialogInit /\ [][DialogNext]_vars

\* C27 (threshold range of the dialog): whenever the user types into the
\* threshold field, the value is stored and the field flagged valid if the
\* text denotes a value between 0.01 and 1.0 inclusive, and otherwise the
\* stored threshold is unchanged and the field is flagged invalid.
ThresholdAcceptedInStatedRange ==
    [][thresholdEdit_onTextUpdated =>
          LET v == ParseFloat(host'.thresholdText)
          IN  IF ~v.isNaN /\ v.value >= 10 /\ v.value <= 1000
              THEN /\ settings'.threshold = v.value
                   /\ "threshold" \notin host'.invalid
              ELSE /\ settings'.threshold = settings.threshold
                   /\ "threshold" \in host'.invalid]_vars

\* C28 (preset agrees with its table entry): whenever the stored preset is
\* not "custom" it is a key of PRESETS, the stored model and threshold are
\* those of its entry, and the command line carries that entry's threshold
\* in front of the --preset flag.
PresetAgreesWithTable ==
    (util = "DeepCR" /\ settings.preset # "custom") =>
        /\ settings.preset \in DOMAIN PRESETS
        /\ settings.model = PRESETS[settings.preset].model
        /\ settings.threshold = PRESETS[settings.preset].threshold
        /\ LET cmd == buildCommandArray_DeepCR(settings, "in.xisf")
           IN  /\ cmd[6] = "--preset"
               /\ cmd[5] = NumberToString(PRESETS[cmd[7]].threshold)

\* Witness for C28: after a threshold edit, a non-default preset was chosen,
\* saved to an instance and imported by a later run of the script.
PresetWitness ==
    /\ pc = "dialog"
    /\ saved.imports >= 1
    /\ host.edits >= 1
    /\ settings.preset = "acs_default"
    /\ settings.model = "ACS-WFC"
    /\ settings.threshold = 500

\* C30 (Execute refused exactly for an invalid field): while the dialog is
\* open the validation flag of the threshold is true exactly when the text
\* shown in the threshold field is one the validator accepts, and selecting a
\* preset other than "custom" leaves that preset stored.
ExecuteRefusedIffFieldInvalid ==
    /\ [](( pc = "dialog" /\ util = "DeepCR") =>
             (("threshold" \notin host.invalid)
                 <=> ~ThresholdRejected(ParseFloat(host.thresholdText))))
    /\ [][\A index \in 0..3 :
             presetCombo_onItemSelected(index) => settings'.preset = presetNames[index + 1]]_vars

====
